---------------------------- MODULE Spec2Model ----------------------------
(***************************************************************************)
(* A model of quality-bot's detector orchestration core:                   *)
(*   - metrics.Provider   (src/src/service/metrics/provider.go)            *)
(*   - detector.Runner    (src/src/service/detector/runner.go)             *)
(*   - CouplingDetector   (src/src/service/detector/coupling.go)           *)
(*   - DuplicationDetector(src/src/service/detector/duplication.go)        *)
(*   - ComplexityDetector and SizeAndStructureDetector                     *)
(*   - BaseDetector.FilterBySeverity and the controller's report summary   *)
(*   - codeapi.Client.post (src/src/service/codeapi/client.go)             *)
(* Each subsystem has its own specification (SpecProvider, SpecRunner,     *)
(* SpecIntimacy, SpecDup, SpecFilter, SpecSummary, SpecDetect,             *)
(* SpecDetectAll, SpecClient, SpecSim and SpecCandidates) over the         *)
(* variables it owns; the variables of the other subsystems stay at their  *)
(* initial values.                                                         *)
(***************************************************************************)
EXTENDS Integers, Sequences, FiniteSets, TLC

VARIABLES
    \* ---- metrics.Provider ----
    cfgEnabled,     \* Provider.cfg.Enabled (config.CacheConfig)
    cache,          \* the four cached slices, by field name
    readers,        \* callers holding p.mu.RLock
    writer,         \* the caller (if any) that holds or is acquiring p.mu.Lock
    ppc,            \* per caller: position inside the accessor
    pkind,          \* per caller: accessor in progress (the field it serves)
    pret,           \* per caller: slice returned by its last finished call
    perr,           \* per caller: whether its last finished call returned an error
    pcalls,         \* calls started so far, by all callers
    queries,        \* per field: external queries issued (ExecuteCypher calls)
    failFetches,    \* per field: external queries that failed
    clears,         \* ClearCache calls completed
    firstOK,        \* per field: the first slice handed to a caller with a nil error
    \* ---- detector.Runner ----
    rEnabled,       \* per detector: IsEnabled()
    failFast,       \* cfg.Detectors.FailFast
    maxParallel,    \* cfg.Concurrency.MaxParallelDetectors
    mainpc,         \* RunAll's own position
    launchIdx,      \* index into r.detectors of the launch loop
    wpc,            \* per detector: position of its goroutine
    sem,            \* number of tokens in the sem channel
    mu,             \* the goroutine (if any) holding mu
    wg,             \* the WaitGroup counter
    allIssues,      \* the merged slice
    errChan,        \* contents of the buffered error channel
    errLog,         \* history: every error sent to errChan, in send order
    detectCalls,    \* history: per detector, calls of Detect
    detectResult,   \* history: per detector, what Detect returned
    retIssues,      \* RunAll's returned issues
    retErr,         \* RunAll's returned error
    \* ---- CouplingDetector.detectInappropriateIntimacy ----
    exclusions,     \* the ExclusionMatcher's configuration
    classPairs,     \* what GetClassPairMetrics returns (a slice, or nil on error)
    classPairsErr,  \* whether GetClassPairMetrics returns an error
    ipc,            \* position: "start" or "done"
    iIssues,        \* the issues detectInappropriateIntimacy returned
    iErr,           \* whether it returned an error
    \* ---- DuplicationDetector.Detect ----
    dupCfg,         \* DuplicationDetector.cfg (config.DuplicationConfig)
    searchWorkers,  \* Cfg.Concurrency.SimilaritySearchWorkers
    minSeverity,    \* Cfg.Severity.MinSeverity
    dupFunctions,      \* what GetAllFunctionMetrics returns
    functionsErr,   \* whether GetAllFunctionMetrics returns an error
    dpc,            \* Detect's own position
    dupCandidates,     \* the candidates slice
    dLaunchIdx,     \* index into candidates of the launch loop
    gpc,            \* per candidate index: position of its goroutine
    dsem,           \* number of tokens in the sem channel
    dmu,            \* the goroutine (if any) holding mu
    dwg,            \* the WaitGroup counter
    dupMatches,        \* per candidate index: what findSimilarFunctions returned
    dupIssues,         \* the shared issues slice
    dupReported,       \* the keys of the reported map
    searched,       \* history: per candidate index, the search response summary
    dRet,           \* the issues Detect returned
    dErr,           \* whether Detect returned an error
    \* ---- BaseDetector.FilterBySeverity ----
    fIn,            \* the issues passed to FilterBySeverity
    fOut,           \* what FilterBySeverity returned
    fpc,            \* position: "start" or "done"
    \* ---- AnalysisController.generateSummary ----
    sIssues,        \* the issues passed to generateSummary
    topN,           \* cfg.Output.HotspotsTopN
    summary,        \* the ReportSummary generateSummary returned
    spc,            \* position: "start" or "done"
    \* ---- ComplexityDetector, SizeAndStructureDetector, CouplingDetector: Detect ----
    detName,        \* the detector whose Detect runs
    dtpc,           \* Detect's position: "start", the next sub-check, or "returned"
    dtIssues,       \* Detect's local issues slice
    fetched,        \* what the last metrics accessor call returned: rows or an error
    dtRet,          \* the issues Detect returned
    dtErr,          \* whether Detect returned an error
    \* ---- codeapi.Client.post ----
    retryConf,      \* the client's RetryConfig: MaxAttempts, RetryOnStatus
    cpc,            \* where Client.post is: idle, attempt, backoff, returned
    attempt,        \* post's loop counter
    attempts,       \* history: the outcome of every doPost of the call, in order
    cret,           \* the error post returned (NoError for nil)
    \* ---- findSimilarFunctions for one candidate ----
    simFn,          \* the candidate findSimilarFunctions is called for
    simResults,     \* resp.Results of its SearchSimilarCode call
    simMatches,     \* its matches after the filter loop, before line 217
    simKept,        \* the matches it returns
    simLog,         \* history: the comparisons deduplicateOverlappingMatches made
    simIssues,      \* the issues the report loop creates from simKept
    simpc,          \* start, searched, reported
    \* ---- AnalysisController.Analyze after RunAll ----
    runAllIssues,   \* the issues RunAll returned to Analyze
    outCfg,         \* cfg.Output: MaxIssuesPerCategory, IncludeCodeSnippets, HotspotsTopN
    anIssues,       \* the local variable issues of Analyze
    anIdx,          \* the index i of the loop of fetchCodeSnippets
    snFetched,      \* fetchCodeSnippets' counter fetched
    snSkipped,      \* fetchCodeSnippets' counter skipped
    snFailed,       \* fetchCodeSnippets' counter failed
    anReport,       \* the AnalysisReport Analyze returns: Issues and Summary
    anpc            \* position of Analyze: "filters", "snippets", "report" or "done"

providerVars == <<cfgEnabled, cache, readers, writer, ppc, pkind, pret, perr,
                  pcalls, queries, failFetches, clears, firstOK>>

runnerVars == <<rEnabled, failFast, maxParallel, mainpc, launchIdx, wpc, sem, mu,
                wg, allIssues, errChan, errLog, detectCalls, detectResult,
                retIssues, retErr>>

intimacyVars == <<exclusions, classPairs, classPairsErr, ipc, iIssues, iErr>>

dupVars == <<dupCfg, searchWorkers, minSeverity, dupFunctions, functionsErr, dpc,
             dupCandidates, dLaunchIdx, gpc, dsem, dmu, dwg, dupMatches, dupIssues,
             dupReported, searched, dRet, dErr>>

filterVars == <<fIn, fOut, fpc>>

summaryVars == <<sIssues, topN, summary, spc>>

detectVars == <<detName, dtpc, dtIssues, fetched, dtRet, dtErr>>

clientVars == <<retryConf, cpc, attempt, attempts, cret>>

simVars == <<simFn, simResults, simMatches, simKept, simLog, simIssues, simpc>>

analyzeVars == <<runAllIssues, outCfg, anIssues, anIdx, snFetched, snSkipped, snFailed, anReport, anpc>>

vars == <<providerVars, runnerVars, intimacyVars, dupVars, filterVars, summaryVars, detectVars, clientVars, simVars, analyzeVars>>

\* the variables each subsystem leaves alone
notProvider == <<runnerVars, intimacyVars, dupVars, filterVars, summaryVars, detectVars, clientVars, simVars, analyzeVars>>

notRunner == <<providerVars, intimacyVars, dupVars, filterVars, summaryVars, detectVars, clientVars, simVars, analyzeVars>>

notIntimacy == <<providerVars, runnerVars, dupVars, filterVars, summaryVars, detectVars, clientVars, simVars, analyzeVars>>

\* everything Detect of the duplication detector leaves alone
notDup == <<providerVars, runnerVars, intimacyVars, filterVars, summaryVars, detectVars, clientVars, simVars, analyzeVars>>

notFilter == <<providerVars, runnerVars, intimacyVars, dupVars, summaryVars, detectVars, clientVars, simVars, analyzeVars>>

notSummary == <<providerVars, runnerVars, intimacyVars, dupVars, filterVars, detectVars, clientVars, simVars, analyzeVars>>

notDetect == <<providerVars, runnerVars, intimacyVars, dupVars, filterVars, summaryVars, clientVars, simVars, analyzeVars>>

notClient == <<providerVars, runnerVars, intimacyVars, dupVars, filterVars, summaryVars, detectVars, simVars, analyzeVars>>

notSim == <<providerVars, runnerVars, intimacyVars, dupVars, filterVars, summaryVars, detectVars, clientVars, analyzeVars>>

notAnalyze == <<providerVars, runnerVars, intimacyVars, dupVars, filterVars, summaryVars, detectVars, clientVars, simVars>>

-----------------------------------------------------------------------------
(* Bounds of the model *)
NumCallers == 2     \* concurrent callers of the provider
MaxCalls == 3       \* calls made in one behaviour, by all callers
MaxRows == 1        \* rows in one external query result
MaxClears == 1      \* ClearCache calls in one behaviour
MaxParallel == 2    \* largest configured MaxParallelDetectors
MaxRetryAttempts == 2  \* largest configured RetryConfig.MaxAttempts
MaxIssues == 1      \* issues one Detect call returns, when it returns any
MaxPairs == 2       \* class-pair records in one query result

MaxResults == 1     \* results in one similarity search response
MaxSimResults == 3  \* results in the response to the single candidate's search
MaxCandFunctions == 3  \* functions in the metrics of the candidate-selection runs

MaxWorkers == 2     \* SimilaritySearchWorkers

MaxFilterLen == 3   \* issues passed to one FilterBySeverity call

MaxReportLen == 3  \* issues RunAll hands to Analyze
MaxPerCategory == 2  \* largest cfg.Output.MaxIssuesPerCategory
MaxSummaryLen == 2  \* issues in an arbitrary collection passed to generateSummary

MaxTopN == 2        \* largest configured HotspotsTopN

MaxMetricRows == 1  \* rows one metrics accessor returns to a sub-check of Detect

-----------------------------------------------------------------------------
(* Go slices: a nil slice and an empty non-nil slice are different values *)
NilSlice == [isNil |-> TRUE, rows |-> <<>>]

MakeSlice(rows) == [isNil |-> FALSE, rows |-> rows]

SeqsUpTo(S, n) == UNION {[1..m -> S] : m \in 0..n}

(* Go strings that are compared or concatenated: sequences of byte values *)
RECURSIVE StrLess(_, _)
\* a < b on Go strings: bytewise lexicographic, a proper prefix is smaller
StrLess(a, b) ==
    IF Len(b) = 0 THEN FALSE
    ELSE IF Len(a) = 0 THEN TRUE
    ELSE IF a[1] < b[1] THEN TRUE
    ELSE IF a[1] > b[1] THEN FALSE
    ELSE StrLess(Tail(a), Tail(b))

StrColon == <<58>>              \* ":"

-----------------------------------------------------------------------------
(* metrics.Provider *)

Kinds == {"functionMetrics", "classMetrics", "fileMetrics", "classPairMetrics"}

Callers == 1..NumCallers

RowIds == {"r1"}

\* What ExecuteCypher can answer: a sequence of result rows
CypherResults == {<<>>} \cup [1..MaxRows -> RowIds]

\* fetch*Metrics on success: make([]T, 0, len(results)) then one append per row
FetchNilWhenEmpty(results) ==
    IF Len(results) = 0 THEN NilSlice ELSE MakeSlice(results)

fetchMetrics(results) == MakeSlice(results)

\* the cache after a fetch returned (ok = no error): stored only if cfg.Enabled
StoreAlways(c, k, metrics, ok) ==
    IF c THEN [cache EXCEPT ![k] = IF ok THEN metrics ELSE MakeSlice(<<>>)]
         ELSE cache

StoreIgnoringConfig(c, k, metrics, ok) ==
    IF ok THEN [cache EXCEPT ![k] = metrics] ELSE cache

StoreFetched(c, k, metrics, ok) ==
    IF ok /\ c THEN [cache EXCEPT ![k] = metrics] ELSE cache

\* history: remember the first slice returned without error for field k
FirstReturned(k, metrics) ==
    IF firstOK[k].isNil THEN [firstOK EXCEPT ![k] = metrics] ELSE firstOK

\* the optimistic test under the read lock: if p.functionMetrics != nil
IsCached(k) == ~cache[k].isNil

\* the same test repeated under the write lock ("Double-check after acquiring
\* write lock")
NoDoubleCheck(k) == FALSE

IsCachedAfterUpgrade(k) == ~cache[k].isNil

StartProvider ==
    /\ cfgEnabled \in BOOLEAN
    /\ cache = [k \in Kinds |-> NilSlice]
    /\ readers = {}
    /\ writer = {}
    /\ ppc = [c \in Callers |-> "idle"]
    /\ pkind = [c \in Callers |-> "functionMetrics"]
    /\ pret = [c \in Callers |-> NilSlice]
    /\ perr = [c \in Callers |-> FALSE]
    /\ pcalls = 0
    /\ queries = [k \in Kinds |-> 0]
    /\ failFetches = [k \in Kinds |-> 0]
    /\ clears = 0
    /\ firstOK = [k \in Kinds |-> NilSlice]

\* callers are numbered in the order of their first call
FirstCallsInOrder(c) == \A o \in Callers : o < c => ppc[o] # "idle"

\* RLock proceeds only while no writer holds or waits for p.mu
RLockAlwaysFree == TRUE

RLockFree == writer = {}

\* p.mu.RLock(): blocks while a writer holds or waits for the lock
GetMetrics(c, k) ==
    /\ ppc[c] \in {"idle", "done"}
    /\ pcalls < MaxCalls
    /\ FirstCallsInOrder(c)
    /\ RLockFree
    /\ readers' = readers \cup {c}
    /\ ppc' = [ppc EXCEPT ![c] = "rlocked"]
    /\ pkind' = [pkind EXCEPT ![c] = k]
    /\ pcalls' = pcalls + 1
    /\ UNCHANGED <<cfgEnabled, cache, writer, pret, perr, queries, failFetches, clears, firstOK>>
    /\ UNCHANGED notProvider

\* if p.xMetrics != nil { defer RUnlock; return p.xMetrics, nil }; p.mu.RUnlock()
ReadCheck(c) ==
    /\ ppc[c] = "rlocked"
    /\ readers' = readers \ {c}
    /\ IF IsCached(pkind[c])
         THEN /\ ppc' = [ppc EXCEPT ![c] = "done"]
              /\ pret' = [pret EXCEPT ![c] = cache[pkind[c]]]
              /\ perr' = [perr EXCEPT ![c] = FALSE]
              /\ firstOK' = FirstReturned(pkind[c], cache[pkind[c]])
         ELSE /\ ppc' = [ppc EXCEPT ![c] = "unlocked"]
              /\ UNCHANGED <<pret, perr, firstOK>>
    /\ UNCHANGED <<cfgEnabled, cache, writer, pkind, pcalls, queries, failFetches, clears>>
    /\ UNCHANGED notProvider

\* p.mu.Lock(), first half: take the writer slot, which stops new readers
LockAnnounce(c) ==
    /\ ppc[c] = "unlocked"
    /\ writer = {}
    /\ writer' = {c}
    /\ ppc' = [ppc EXCEPT ![c] = "lockwait"]
    /\ UNCHANGED <<cfgEnabled, cache, readers, pkind, pret, perr, pcalls, queries,
                   failFetches, clears, firstOK>>
    /\ UNCHANGED notProvider

\* p.mu.Lock(), second half: wait until the active readers have left
LockAcquire(c) ==
    /\ ppc[c] = "lockwait"
    /\ readers = {}
    /\ ppc' = [ppc EXCEPT ![c] = "locked"]
    /\ UNCHANGED <<cfgEnabled, cache, readers, writer, pkind, pret, perr, pcalls,
                   queries, failFetches, clears, firstOK>>
    /\ UNCHANGED notProvider

\* the double check under the write lock; a miss issues the external query
DoubleCheck(c) ==
    /\ ppc[c] = "locked"
    /\ pkind[c] \in Kinds
    /\ IF IsCachedAfterUpgrade(pkind[c])
         THEN /\ ppc' = [ppc EXCEPT ![c] = "done"]
              /\ pret' = [pret EXCEPT ![c] = cache[pkind[c]]]
              /\ perr' = [perr EXCEPT ![c] = FALSE]
              /\ firstOK' = FirstReturned(pkind[c], cache[pkind[c]])
              /\ writer' = {}
              /\ UNCHANGED queries
         ELSE /\ ppc' = [ppc EXCEPT ![c] = "fetching"]
              /\ queries' = [queries EXCEPT ![pkind[c]] = @ + 1]
              /\ UNCHANGED <<pret, perr, firstOK, writer>>
    /\ UNCHANGED <<cfgEnabled, cache, readers, pkind, pcalls, failFetches, clears>>
    /\ UNCHANGED notProvider

\* the external query answered with rows: map, store if enabled, return, Unlock
FetchSucceeds(c, results) ==
    /\ ppc[c] = "fetching"
    /\ cache' = StoreFetched(cfgEnabled, pkind[c], fetchMetrics(results), TRUE)
    /\ pret' = [pret EXCEPT ![c] = fetchMetrics(results)]
    /\ perr' = [perr EXCEPT ![c] = FALSE]
    /\ firstOK' = FirstReturned(pkind[c], fetchMetrics(results))
    /\ writer' = {}
    /\ ppc' = [ppc EXCEPT ![c] = "done"]
    /\ UNCHANGED <<cfgEnabled, readers, pkind, pcalls, queries, failFetches, clears>>
    /\ UNCHANGED notProvider

\* the external query failed: return nil, err; Unlock
FetchFails(c) ==
    /\ ppc[c] = "fetching"
    /\ cache' = StoreFetched(cfgEnabled, pkind[c], NilSlice, FALSE)
    /\ pret' = [pret EXCEPT ![c] = NilSlice]
    /\ perr' = [perr EXCEPT ![c] = TRUE]
    /\ failFetches' = [failFetches EXCEPT ![pkind[c]] = @ + 1]
    /\ writer' = {}
    /\ ppc' = [ppc EXCEPT ![c] = "done"]
    /\ UNCHANGED <<cfgEnabled, readers, pkind, pcalls, queries, clears,
                   firstOK>>
    /\ UNCHANGED notProvider

\* ClearCache is called: it goes straight to p.mu.Lock()
ClearCacheCall(c) ==
    /\ ppc[c] \in {"idle", "done"}
    /\ pcalls < MaxCalls
    /\ FirstCallsInOrder(c)
    /\ clears < MaxClears
    /\ ppc' = [ppc EXCEPT ![c] = "unlocked"]
    /\ pkind' = [pkind EXCEPT ![c] = "clear"]
    /\ pcalls' = pcalls + 1
    /\ clears' = clears + 1
    /\ UNCHANGED <<cfgEnabled, cache, readers, writer, pret, perr, queries,
                   failFetches, firstOK>>
    /\ UNCHANGED notProvider

\* the four assignments of ClearCache: every cached collection = nil
ClearedFunctionsOnly == [cache EXCEPT !["functionMetrics"] = NilSlice]

ClearedCache == [k \in Kinds |-> NilSlice]

\* ClearCache under the write lock: all four fields = nil; Unlock
ClearCache(c) ==
    /\ ppc[c] = "locked"
    /\ pkind[c] = "clear"
    /\ cache' = ClearedCache
    /\ writer' = {}
    /\ ppc' = [ppc EXCEPT ![c] = "done"]
    /\ UNCHANGED <<cfgEnabled, readers, pkind, pret, perr, pcalls, queries,
                   failFetches, clears, firstOK>>
    /\ UNCHANGED notProvider

NextProvider ==
    \E c \in Callers :
        \/ \E k \in Kinds : GetMetrics(c, k)
        \/ ReadCheck(c)
        \/ LockAnnounce(c)
        \/ LockAcquire(c)
        \/ DoubleCheck(c)
        \/ \E results \in CypherResults : FetchSucceeds(c, results)
        \/ FetchFails(c)
        \/ ClearCacheCall(c)
        \/ ClearCache(c)

-----------------------------------------------------------------------------
(* detector.Runner *)

\* NewRunner registers these four, in this order
detectors == <<"complexity", "size_structure", "coupling", "duplication">>

DetectorNames == {detectors[i] : i \in 1..Len(detectors)}

IssueIds == {"i1"}

NoErr == [detector |-> "", cause |-> ""]

\* What one Detect call can return: an error (and no issues), no issues, or
\* MaxIssues issues
DetectOutcomes(d) ==
    {[err |-> "unavailable", issues |-> <<>>]} \cup
    {[err |-> "", issues |-> is] :
        is \in {s \in SeqsUpTo([detector : {d}, id : IssueIds], MaxIssues) :
                  Len(s) \in {0, MaxIssues}}}

NotCalled == [err |-> "", issues |-> <<>>]

\* sem <- struct{}{} on a channel of capacity k proceeds iff it holds fewer than k
SemAlwaysRoom(n, k) == TRUE

SemHasRoom(n, k) == n < k

\* fmt.Errorf("detector %s: %w", detector.Name(), err)
WrapErrUntagged(d, cause) == [detector |-> "", cause |-> cause]

WrapErr(d, cause) == [detector |-> d, cause |-> cause]

\* allIssues = append(allIssues, issues...): nil stays nil when nothing is added
ReplaceIssues(all, issues) ==
    IF Len(issues) = 0 THEN all ELSE MakeSlice(issues)

AppendIssues(all, issues) ==
    IF all.isNil /\ Len(issues) = 0 THEN NilSlice ELSE MakeSlice(all.rows \o issues)

\* wg.Wait() returns when the counter is zero
WaitNever(n) == TRUE

WaitReturns(n) == n = 0

StartRunner ==
    /\ rEnabled \in [DetectorNames -> BOOLEAN]
    /\ failFast \in BOOLEAN
    /\ maxParallel \in 0..MaxParallel
    /\ mainpc = "launch"
    /\ launchIdx = 1
    /\ wpc = [d \in DetectorNames |-> "none"]
    /\ sem = 0
    /\ mu = {}
    /\ wg = 0
    /\ allIssues = NilSlice
    /\ errChan = <<>>
    /\ errLog = <<>>
    /\ detectCalls = [d \in DetectorNames |-> 0]
    /\ detectResult = [d \in DetectorNames |-> NotCalled]
    /\ retIssues = NilSlice
    /\ retErr = NoErr

ParkedRunner ==
    /\ rEnabled = [d \in DetectorNames |-> FALSE]
    /\ failFast = FALSE
    /\ maxParallel = 0
    /\ mainpc = "launch"
    /\ launchIdx = 1
    /\ wpc = [d \in DetectorNames |-> "none"]
    /\ sem = 0
    /\ mu = {}
    /\ wg = 0
    /\ allIssues = NilSlice
    /\ errChan = <<>>
    /\ errLog = <<>>
    /\ detectCalls = [d \in DetectorNames |-> 0]
    /\ detectResult = [d \in DetectorNames |-> NotCalled]
    /\ retIssues = NilSlice
    /\ retErr = NoErr

\* d.IsEnabled(): the detector's configured Enabled flag
AlwaysEnabled(d) == TRUE

IsEnabled(d) == rEnabled[d]

\* one turn of the launch loop: skip a disabled detector, or wg.Add(1) and go
Launch ==
    /\ mainpc = "launch"
    /\ launchIdx <= Len(detectors)
    /\ launchIdx' = launchIdx + 1
    /\ IF IsEnabled(detectors[launchIdx])
         THEN /\ wg' = wg + 1
              /\ wpc' = [wpc EXCEPT ![detectors[launchIdx]] = "start"]
         ELSE UNCHANGED <<wg, wpc>>
    /\ UNCHANGED <<rEnabled, failFast, maxParallel, mainpc, sem, mu, allIssues,
                   errChan, errLog, detectCalls, detectResult, retIssues, retErr>>
    /\ UNCHANGED notRunner

\* the loop is over; RunAll reaches wg.Wait()
LaunchDone ==
    /\ mainpc = "launch"
    /\ launchIdx > Len(detectors)
    /\ mainpc' = "wait"
    /\ UNCHANGED <<rEnabled, failFast, maxParallel, launchIdx, wpc, sem, mu, wg,
                   allIssues, errChan, errLog, detectCalls, detectResult,
                   retIssues, retErr>>
    /\ UNCHANGED notRunner

\* sem <- struct{}{}, then the goroutine calls detector.Detect(ctx)
Acquire(d) ==
    /\ wpc[d] = "start"
    /\ SemHasRoom(sem, maxParallel)
    /\ sem' = sem + 1
    /\ wpc' = [wpc EXCEPT ![d] = "detecting"]
    /\ detectCalls' = [detectCalls EXCEPT ![d] = @ + 1]
    /\ UNCHANGED <<rEnabled, failFast, maxParallel, mainpc, launchIdx, mu, wg,
                   allIssues, errChan, errLog, detectResult, retIssues, retErr>>
    /\ UNCHANGED notRunner

\* Detect returns (issues, err)
DetectReturns(d, out) ==
    /\ wpc[d] = "detecting"
    /\ detectResult' = [detectResult EXCEPT ![d] = out]
    /\ wpc' = [wpc EXCEPT ![d] =
                 IF out.err # "" THEN (IF failFast THEN "failed" ELSE "release")
                                 ELSE "succeeded"]
    /\ UNCHANGED <<rEnabled, failFast, maxParallel, mainpc, launchIdx, sem, mu, wg,
                   allIssues, errChan, errLog, detectCalls, retIssues, retErr>>
    /\ UNCHANGED notRunner

\* errChan <- fmt.Errorf(...): the channel has room for one error per detector
SendErr(d) ==
    /\ wpc[d] = "failed"
    /\ Len(errChan) < Len(detectors)
    /\ errChan' = Append(errChan, WrapErr(d, detectResult[d].err))
    /\ errLog' = Append(errLog, WrapErr(d, detectResult[d].err))
    /\ wpc' = [wpc EXCEPT ![d] = "release"]
    /\ UNCHANGED <<rEnabled, failFast, maxParallel, mainpc, launchIdx, sem, mu, wg,
                   allIssues, detectCalls, detectResult, retIssues, retErr>>
    /\ UNCHANGED notRunner

\* mu.Lock()
LockMu(d) ==
    /\ wpc[d] = "succeeded"
    /\ mu = {}
    /\ mu' = {d}
    /\ wpc' = [wpc EXCEPT ![d] = "merging"]
    /\ UNCHANGED <<rEnabled, failFast, maxParallel, mainpc, launchIdx, sem, wg,
                   allIssues, errChan, errLog, detectCalls, detectResult,
                   retIssues, retErr>>
    /\ UNCHANGED notRunner

\* allIssues = append(allIssues, issues...); mu.Unlock()
Merge(d) ==
    /\ wpc[d] = "merging"
    /\ allIssues' = AppendIssues(allIssues, detectResult[d].issues)
    /\ mu' = {}
    /\ wpc' = [wpc EXCEPT ![d] = "release"]
    /\ UNCHANGED <<rEnabled, failFast, maxParallel, mainpc, launchIdx, sem, wg,
                   errChan, errLog, detectCalls, detectResult, retIssues, retErr>>
    /\ UNCHANGED notRunner

\* <-sem takes one element out of the channel
KeepPermit(n) == n

ReleasePermit(n) == n - 1

\* deferred func() { <-sem }(): runs first, it was deferred last
Release(d) ==
    /\ wpc[d] = "release"
    /\ sem > 0
    /\ sem' = ReleasePermit(sem)
    /\ wpc' = [wpc EXCEPT ![d] = "wgdone"]
    /\ UNCHANGED <<rEnabled, failFast, maxParallel, mainpc, launchIdx, mu, wg,
                   allIssues, errChan, errLog, detectCalls, detectResult,
                   retIssues, retErr>>
    /\ UNCHANGED notRunner

\* deferred wg.Done()
WgDone(d) ==
    /\ wpc[d] = "wgdone"
    /\ wg' = wg - 1
    /\ wpc' = [wpc EXCEPT ![d] = "done"]
    /\ UNCHANGED <<rEnabled, failFast, maxParallel, mainpc, launchIdx, sem, mu,
                   allIssues, errChan, errLog, detectCalls, detectResult,
                   retIssues, retErr>>
    /\ UNCHANGED notRunner

\* wg.Wait() returns; close(errChan)
WaitAndClose ==
    /\ mainpc = "wait"
    /\ WaitReturns(wg)
    /\ mainpc' = "closed"
    /\ UNCHANGED <<rEnabled, failFast, maxParallel, launchIdx, wpc, sem, mu, wg,
                   allIssues, errChan, errLog, detectCalls, detectResult,
                   retIssues, retErr>>
    /\ UNCHANGED notRunner

\* if err, ok := <-errChan; ok { return nil, err }; return allIssues, nil
Return ==
    /\ mainpc = "closed"
    /\ mainpc' = "returned"
    /\ IF Len(errChan) > 0
         THEN /\ retErr' = Head(errChan)
              /\ errChan' = Tail(errChan)
              /\ retIssues' = NilSlice
         ELSE /\ retErr' = NoErr
              /\ retIssues' = allIssues
              /\ UNCHANGED errChan
    /\ UNCHANGED <<rEnabled, failFast, maxParallel, launchIdx, wpc, sem, mu, wg,
                   allIssues, errLog, detectCalls, detectResult>>
    /\ UNCHANGED notRunner

NextRunner ==
    \/ Launch
    \/ LaunchDone
    \/ \E d \in DetectorNames :
        \/ Acquire(d)
        \/ \E out \in DetectOutcomes(d) : DetectReturns(d, out)
        \/ SendErr(d)
        \/ LockMu(d)
        \/ Merge(d)
        \/ Release(d)
        \/ WgDone(d)
    \/ WaitAndClose
    \/ Return

-----------------------------------------------------------------------------
(* util.ExclusionMatcher and CouplingDetector.detectInappropriateIntimacy *)

NameA == <<65>>                 \* "A"

NameB == <<66>>                 \* "B"

\* the classes of the repository: A is the name of two classes
Classes == {[name |-> NameA, file |-> "a.go"],
            [name |-> NameA, file |-> "gen/a.go"],
            [name |-> NameB, file |-> "b.go"]}

IntimacyCallThreshold == 3

CallCounts1To2 == {IntimacyCallThreshold, IntimacyCallThreshold + 1}

CallCounts2To1 == {IntimacyCallThreshold, IntimacyCallThreshold + 1,
                   IntimacyCallThreshold + 2}

\* the rows fetchClassPairMetrics can produce (WHERE c1 <> c2)
ClassPairRecords ==
    UNION {{[Class1Name |-> c1.name, Class1File |-> c1.file,
             Class2Name |-> c2.name, Class2File |-> c2.file,
             Calls1To2 |-> n12, Calls2To1 |-> n21, SharedFieldAccess |-> 0] :
               c2 \in Classes \ {c1},
               n12 \in CallCounts1To2, n21 \in CallCounts2To1} : c1 \in Classes}

\* ExclusionsConfig as the sets of names its entries match: Files and
\* FilePatterns as the file paths matched, ClassPatterns and FunctionPatterns
\* as the class and function names matched
ExclusionConfigs ==
    [files : {{}, {"gen/a.go"}}, classes : {{}, {NameB}}, functions : {{}}]

NoExclusions == [files |-> {}, classes |-> {}, functions |-> {}]

\* ExclusionMatcher.Matches
Matches(filePath, className, funcName) ==
    \/ filePath \in exclusions.files
    \/ className # <<>> /\ className \in exclusions.classes
    \/ funcName # <<>> /\ funcName \in exclusions.functions

\* a detector that excludes nothing
NeverExclude(filePath, className, funcName) == FALSE

\* BaseDetector.ShouldExclude
ShouldExclude(filePath, className, funcName) ==
    Matches(filePath, className, funcName)

\* the key of a pair: the two names joined by ":", the smaller name first
UnsortedKey(name1, name2) == name1 \o StrColon \o name2

IntimacyKey(name1, name2) ==
    IF StrLess(name2, name1)
      THEN name2 \o StrColon \o name1
      ELSE name1 \o StrColon \o name2

Min(a, b) == IF a < b THEN a ELSE b

\* pair.Calls1To2 > threshold && pair.Calls2To1 > threshold
\* flags a pair when the calls of either direction exceed the threshold
EitherDirection(pair) ==
    \/ pair.Calls1To2 > IntimacyCallThreshold
    \/ pair.Calls2To1 > IntimacyCallThreshold

IsIntimate(pair) ==
    /\ pair.Calls1To2 > IntimacyCallThreshold
    /\ pair.Calls2To1 > IntimacyCallThreshold

IntimacyIssue(pair) ==
    [Category |-> "coupling",
     Subcategory |-> "inappropriate_intimacy",
     Severity |-> "high",
     FilePath |-> pair.Class1File,
     StartLine |-> 1,
     EndLine |-> 1,
     EntityName |-> <<pair.Class1Name, " <-> ", pair.Class2Name>>,
     EntityType |-> "class_pair",
     Description |-> <<"Classes are too tightly coupled (%d calls each way)",
                       Min(pair.Calls1To2, pair.Calls2To1)>>,
     Metrics |-> [calls_1_to_2 |-> pair.Calls1To2,
                  calls_2_to_1 |-> pair.Calls2To1,
                  shared_field_access |-> pair.SharedFieldAccess,
                  class1 |-> pair.Class1Name,
                  class2 |-> pair.Class2Name]]

RECURSIVE IntimacyLoop(_, _, _, _)
\* the range loop, from record i on, with the reported map and issues so far
IntimacyLoop(pairs, i, reported, issues) ==
    IF i > Len(pairs) THEN issues
    ELSE LET pair == pairs[i]
             key == IntimacyKey(pair.Class1Name, pair.Class2Name)
         IN  IF \/ ShouldExclude(pair.Class1File, pair.Class1Name, <<>>)
                \/ ShouldExclude(pair.Class2File, pair.Class2Name, <<>>)
               THEN IntimacyLoop(pairs, i + 1, reported, issues)
             ELSE IF ~IsIntimate(pair)
               THEN IntimacyLoop(pairs, i + 1, reported, issues)
             ELSE IF key \in reported
               THEN IntimacyLoop(pairs, i + 1, reported, issues)
             ELSE IntimacyLoop(pairs, i + 1, reported \cup {key},
                               Append(issues, IntimacyIssue(pair)))

StartIntimacy ==
    /\ exclusions \in ExclusionConfigs
    /\ classPairsErr \in BOOLEAN
    /\ classPairs \in IF classPairsErr THEN {<<>>}
                                       ELSE SeqsUpTo(ClassPairRecords, MaxPairs)
    /\ ipc = "start"
    /\ iIssues = <<>>
    /\ iErr = FALSE

ParkedPairs ==
    /\ classPairsErr = FALSE
    /\ classPairs = <<>>
    /\ ipc = "start"
    /\ iIssues = <<>>
    /\ iErr = FALSE

ParkedIntimacy == exclusions = NoExclusions /\ ParkedPairs

\* CouplingDetector.detectInappropriateIntimacy
detectInappropriateIntimacy ==
    /\ ipc = "start"
    /\ ipc' = "done"
    /\ IF classPairsErr
         THEN iIssues' = <<>> /\ iErr' = TRUE
         ELSE iIssues' = IntimacyLoop(classPairs, 1, {}, <<>>) /\ iErr' = FALSE
    /\ UNCHANGED <<exclusions, classPairs, classPairsErr>>
    /\ UNCHANGED notIntimacy

NextIntimacy == detectInappropriateIntimacy

-----------------------------------------------------------------------------
(* DuplicationDetector: pure helpers *)

RECURSIVE Itoa(_)
\* %d of a non-negative int
Itoa(n) == IF n < 10 THEN <<48 + n>> ELSE Itoa(n \div 10) \o <<48 + (n % 10)>>

HasPrefix(str, prefix) ==
    /\ Len(str) >= Len(prefix)
    /\ SubSeq(str, 1, Len(prefix)) = prefix

trivialNames == <<
    <<103, 101, 116>>,    \* "get"
    <<115, 101, 116>>,    \* "set"
    <<105, 115>>,    \* "is"
    <<104, 97, 115>>,    \* "has"
    <<71, 101, 116>>,    \* "Get"
    <<83, 101, 116>>,    \* "Set"
    <<73, 115>>,    \* "Is"
    <<72, 97, 115>>,    \* "Has"
    <<95, 95, 105, 110, 105, 116, 95, 95>>,    \* "__init__"
    <<95, 95, 115, 116, 114, 95, 95>>,    \* "__str__"
    <<95, 95, 114, 101, 112, 114, 95, 95>>,    \* "__repr__"
    <<116, 111, 83, 116, 114, 105, 110, 103>>,    \* "toString"
    <<104, 97, 115, 104, 67, 111, 100, 101>>,    \* "hashCode"
    <<101, 113, 117, 97, 108, 115>>,    \* "equals"
    <<83, 116, 114, 105, 110, 103>>,    \* "String"
    <<72, 97, 115, 104>>,    \* "Hash"
    <<69, 113, 117, 97, 108, 115>>    \* "Equals"
>>

statementKeywords == {
    <<119, 104, 105, 108, 101>>,    \* "while"
    <<102, 111, 114>>,    \* "for"
    <<105, 102>>,    \* "if"
    <<101, 108, 115, 101>>,    \* "else"
    <<115, 119, 105, 116, 99, 104>>,    \* "switch"
    <<99, 97, 115, 101>>,    \* "case"
    <<116, 114, 121>>,    \* "try"
    <<99, 97, 116, 99, 104>>,    \* "catch"
    <<102, 105, 110, 97, 108, 108, 121>>,    \* "finally"
    <<100, 111>>,    \* "do"
    <<102, 111, 114, 101, 97, 99, 104>>,    \* "foreach"
    <<119, 105, 116, 104>>,    \* "with"
    <<109, 97, 116, 99, 104>>,    \* "match"
    <<115, 101, 108, 101, 99, 116>>,    \* "select"
    <<108, 111, 111, 112>>    \* "loop"
}

StrFunction == <<102, 117, 110, 99, 116, 105, 111, 110>>    \* "function"

StrBlock == <<98, 108, 111, 99, 107>>    \* "block"

\* DuplicationDetector.isTrivialFunction
isTrivialFunction(fn) ==
    \/ \E i \in 1..Len(trivialNames) : HasPrefix(fn.Name, trivialNames[i])
    \/ fn.LineCount <= 5 /\ fn.CyclomaticComplexity <= 1

RECURSIVE LastDot(_, _)
\* index of the last "." in filePath at or before position i, 0 if none
LastDot(filePath, i) ==
    IF i = 0 THEN 0
    ELSE IF filePath[i] = 46 THEN i
    ELSE LastDot(filePath, i - 1)

\* DuplicationDetector.detectLanguage: the language of the extension, "" if unknown
detectLanguage(filePath) ==
    LET dot == LastDot(filePath, Len(filePath))
        ext == IF dot = 0 THEN <<>> ELSE SubSeq(filePath, dot + 1, Len(filePath))
    IN  IF ext = <<103, 111>> THEN "go"
        ELSE IF ext = <<112, 121>> THEN "python"
        ELSE IF ext = <<106, 97, 118, 97>> THEN "java"
        ELSE IF ext = <<116, 115>> THEN "typescript"
        ELSE IF ext = <<106, 115>> THEN "javascript"
        ELSE IF ext = <<99, 115>> THEN "csharp"
        ELSE ""

\* DuplicationDetector.linesOverlap
LinesOverlapStrict(start1, end1, start2, end2) == start1 < end2 /\ start2 < end1

linesOverlap(start1, end1, start2, end2) == start1 <= end2 /\ start2 <= end1

\* DuplicationDetector.isFunctionChunk
AnyChunk(chunk) == TRUE

isFunctionChunk(chunk) ==
    IF chunk.ChunkType = StrFunction THEN TRUE
    ELSE IF chunk.ChunkType # <<>> /\ chunk.ChunkType # StrFunction THEN FALSE
    ELSE chunk.Name \notin statementKeywords

\* DuplicationDetector.pairKey
pairKey(id1, id2) ==
    IF StrLess(id1, id2) THEN id1 \o StrColon \o id2 ELSE id2 \o StrColon \o id1

\* fmt.Sprintf("%s:%d", match.Chunk.FilePath, match.Chunk.StartLine)
matchKey(match) == match.Chunk.FilePath \o StrColon \o Itoa(match.Chunk.StartLine)

\* DuplicationDetector.betterMatch: 0 if a is the better match, 1 if b is;
\* scores are in hundredths, so 0.05 is 5
betterMatch(a, b) ==
    LET scoreDiff == a.Score - b.Score
        spanA == a.Chunk.EndLine - a.Chunk.StartLine
        spanB == b.Chunk.EndLine - b.Chunk.StartLine
    IN  IF scoreDiff > 5 THEN 0
        ELSE IF scoreDiff < -5 THEN 1
        ELSE IF spanA >= spanB THEN 0
        ELSE 1

RECURSIVE CompareLoop(_, _, _, _, _)
\* the nested i/j loops over one file's matches; kept is the set of indices
\* still marked true, log the comparisons made so far (a, b and the match
\* whose mark was cleared). "if better == i" compares betterMatch's 0 or 1
\* with the outer loop index, which is i - 1 here (Go counts from 0)
CompareLoop(fileMatches, i, j, kept, log) ==
    IF i > Len(fileMatches) THEN [kept |-> kept, log |-> log]
    ELSE IF i \notin kept THEN CompareLoop(fileMatches, i + 1, i + 2, kept, log)
    ELSE IF j > Len(fileMatches) THEN CompareLoop(fileMatches, i + 1, i + 2, kept, log)
    ELSE IF j \notin kept THEN CompareLoop(fileMatches, i, j + 1, kept, log)
    ELSE IF linesOverlap(fileMatches[i].Chunk.StartLine, fileMatches[i].Chunk.EndLine,
                         fileMatches[j].Chunk.StartLine, fileMatches[j].Chunk.EndLine)
      THEN IF betterMatch(fileMatches[i], fileMatches[j]) = i - 1
             THEN CompareLoop(fileMatches, i, j + 1, kept \ {j},
                              log \cup {[a |-> fileMatches[i], b |-> fileMatches[j],
                                         discarded |-> fileMatches[j]]})
             ELSE CompareLoop(fileMatches, i + 1, i + 2, kept \ {i},
                              log \cup {[a |-> fileMatches[i], b |-> fileMatches[j],
                                         discarded |-> fileMatches[i]]})
    ELSE CompareLoop(fileMatches, i, j + 1, kept, log)

\* the indices still marked true after the loops
KeepLoop(fileMatches, i, j, kept) == CompareLoop(fileMatches, i, j, kept, {}).kept

RECURSIVE SelectSeq2(_, _, _)
\* the elements of seq, from index i on, whose index is in keep, in order
SelectSeq2(seq, i, keep) ==
    IF i > Len(seq) THEN <<>>
    ELSE (IF i \in keep THEN <<seq[i]>> ELSE <<>>) \o SelectSeq2(seq, i + 1, keep)

\* byFile[f]: the matches in file f, in input order
MatchesInFile(matches, f) ==
    SelectSeq2(matches, 1, {i \in 1..Len(matches) : matches[i].Chunk.FilePath = f})

\* what the body of "for _, fileMatches := range byFile" appends for one file
KeptInFile(fileMatches) ==
    IF Len(fileMatches) = 1 THEN fileMatches
    ELSE SelectSeq2(fileMatches, 1,
                    KeepLoop(fileMatches, 1, 2, 1..Len(fileMatches)))

RECURSIVE ConcatFiles(_, _)
ConcatFiles(matches, fileOrder) ==
    IF Len(fileOrder) = 0 THEN <<>>
    ELSE KeptInFile(MatchesInFile(matches, Head(fileOrder)))
         \o ConcatFiles(matches, Tail(fileOrder))

\* the orders in which a Go map with key set S can be ranged over
MapOrders(S) ==
    {o \in [1..Cardinality(S) -> S] : \A i, j \in 1..Cardinality(S) : i # j => o[i] # o[j]}

\* DuplicationDetector.deduplicateOverlappingMatches: the results it can
\* return, one per iteration order of the byFile map
deduplicateOverlappingMatches(matches) ==
    IF Len(matches) <= 1 THEN {matches}
    ELSE {ConcatFiles(matches, o) :
            o \in MapOrders({matches[i].Chunk.FilePath : i \in 1..Len(matches)})}

RECURSIVE FilterResults(_, _, _, _)
\* the filter loop of findSimilarFunctions over resp.Results, from index i on
FilterResults(fn, results, i, threshold) ==
    IF i > Len(results) THEN <<>>
    ELSE LET result == results[i]
             rest == FilterResults(fn, results, i + 1, threshold)
         IN  IF ~isFunctionChunk(result.Chunk) THEN rest
             ELSE IF /\ result.Chunk.FilePath = fn.FilePath
                     /\ linesOverlap(fn.StartLine, fn.EndLine,
                                     result.Chunk.StartLine, result.Chunk.EndLine)
               THEN rest
             ELSE IF result.Score >= threshold THEN <<result>> \o rest
             ELSE rest

\* the severity test of createDuplicationIssue: match.Score > 0.95
HighFrom95(score) == IF score >= 95 THEN "high" ELSE "medium"

duplicationSeverity(score) == IF score > 95 THEN "high" ELSE "medium"

\* DuplicationDetector.createDuplicationIssue; duplicate_end is not in the Go
\* issue: it records match.Chunk.EndLine for the claims
createDuplicationIssue(fn, match) ==
    [Category |-> "duplication",
     Subcategory |-> "similar_code",
     Severity |-> duplicationSeverity(match.Score),
     FilePath |-> fn.FilePath,
     StartLine |-> fn.StartLine,
     EndLine |-> fn.EndLine,
     EntityName |-> fn.Name,
     EntityType |-> "function",
     Metrics |-> [similarity_score |-> match.Score,
                  duplicate_file |-> match.Chunk.FilePath,
                  duplicate_function |-> match.Chunk.Name,
                  duplicate_line |-> match.Chunk.StartLine,
                  duplicate_end |-> match.Chunk.EndLine]]

\* a report loop that appends nothing
ReportNothing(fn, matches, i, reported, issues) ==
    [reported |-> reported, issues |-> issues]

RECURSIVE ReportLoop(_, _, _, _, _)
\* "for _, match := range matches" under mu: the reported keys and the issues
\* after the loop
ReportLoop(fn, matches, i, reported, issues) ==
    IF i > Len(matches) THEN [reported |-> reported, issues |-> issues]
    ELSE LET key == pairKey(fn.ID, matchKey(matches[i]))
         IN  IF key \in reported
               THEN ReportLoop(fn, matches, i + 1, reported, issues)
               ELSE ReportLoop(fn, matches, i + 1, reported \cup {key},
                               Append(issues, createDuplicationIssue(fn, matches[i])))

\* BaseDetector.FilterBySeverity
severityOrder == <<"low", "medium", "high", "critical">>

\* minIdx when an unrecognised minimum would admit nothing
MinIdxAboveAll(minSev) ==
    IF \E i \in 1..Len(severityOrder) : severityOrder[i] = minSev
      THEN CHOOSE i \in 1..Len(severityOrder) : severityOrder[i] = minSev
      ELSE Len(severityOrder) + 1

\* minIdx := 0, replaced by the position of minSev in order if it is there
MinIdx(minSev) ==
    IF \E i \in 1..Len(severityOrder) : severityOrder[i] = minSev
      THEN CHOOSE i \in 1..Len(severityOrder) : severityOrder[i] = minSev
      ELSE 1

\* a filter loop that keeps every issue from index i on
DropNothingFrom(issues, i, minSev) == SubSeq(issues, i, Len(issues))

RECURSIVE FilterBySeverityFrom(_, _, _)
\* the filter loop, from issue i on
FilterBySeverityFrom(issues, i, minSev) ==
    IF i > Len(issues) THEN <<>>
    ELSE (IF \E k \in 1..Len(severityOrder) :
                severityOrder[k] = issues[i].Severity /\ k >= MinIdx(minSev)
            THEN <<issues[i]>> ELSE <<>>)
         \o FilterBySeverityFrom(issues, i + 1, minSev)

\* a filter that ignores the minimum
KeepAll(issues, minSev) == issues

FilterBySeverity(issues, minSev) == FilterBySeverityFrom(issues, 1, minSev)

\* a candidate filter that lets every function through
SelectEvery(functions, i, cfg) == SubSeq(functions, i, Len(functions))

RECURSIVE SelectCandidates(_, _, _)
\* the candidate filter loop of Detect over functions, from index i on
SelectCandidates(functions, i, cfg) ==
    IF i > Len(functions) THEN <<>>
    ELSE LET fn == functions[i]
             rest == SelectCandidates(functions, i + 1, cfg)
         IN  IF ShouldExclude(fn.FilePath, fn.ClassName, fn.Name) THEN rest
             ELSE IF fn.LineCount < cfg.MinLines THEN rest
             ELSE IF cfg.SkipTrivial /\ isTrivialFunction(fn) THEN rest
             ELSE <<fn>> \o rest

\* candidates = candidates[:MaxFunctionsToCheck] when there are more
LimitCandidates(candidates, cfg) ==
    IF Len(candidates) > cfg.MaxFunctionsToCheck
      THEN SubSeq(candidates, 1, cfg.MaxFunctionsToCheck)
      ELSE candidates

-----------------------------------------------------------------------------
(* DuplicationDetector.Detect *)

FileA == <<97, 46, 103, 111>>    \* "a.go"

FileB == <<98, 46, 103, 111>>    \* "b.go"

NameProcess == <<112, 114, 111, 99, 101, 115, 115>>    \* "process"

NameHandle == <<104, 97, 110, 100, 108, 101>>    \* "handle"

NameGetX == <<103, 101, 116, 88>>    \* "getX"

NameOther == <<111, 116, 104, 101, 114>>    \* "other"

NameFor == <<102, 111, 114>>    \* "for"

NameHelper == <<104, 101, 108, 112, 101, 114>>    \* "helper"

\* how the graph store names a function node: an opaque id, or the
\* file:line location of the function
IdSchemes == {"opaque", "location"}

FunctionId(scheme, opaque, filePath, startLine) ==
    IF scheme = "opaque" THEN opaque ELSE filePath \o StrColon \o Itoa(startLine)

\* model.FunctionMetrics rows as fetchFunctionMetrics builds them
\* (LineCount = EndLine - StartLine)
FnProcess(scheme) ==
    [ID |-> FunctionId(scheme, <<102, 49>>, FileA, 1), Name |-> NameProcess,
     FilePath |-> FileA, ClassName |-> <<>>, StartLine |-> 1, EndLine |-> 10,
     LineCount |-> 9, CyclomaticComplexity |-> 3]

FnHandle(scheme) ==
    [ID |-> FunctionId(scheme, <<102, 50>>, FileB, 1), Name |-> NameHandle,
     FilePath |-> FileB, ClassName |-> <<>>, StartLine |-> 1, EndLine |-> 10,
     LineCount |-> 9, CyclomaticComplexity |-> 3]

FnGetX(scheme) ==
    [ID |-> FunctionId(scheme, <<102, 51>>, FileA, 20), Name |-> NameGetX,
     FilePath |-> FileA, ClassName |-> <<>>, StartLine |-> 20, EndLine |-> 26,
     LineCount |-> 6, CyclomaticComplexity |-> 1]

\* the slices GetAllFunctionMetrics can return
FunctionLists ==
    UNION {{<<>>,
            <<FnProcess(s), FnHandle(s)>>,
            <<FnGetX(s), FnProcess(s)>>} : s \in IdSchemes}

\* codeapi.SimilarCodeChunk values the search service can return
ChunkProcess ==
    [FilePath |-> FileA, StartLine |-> 1, EndLine |-> 10,
     ChunkType |-> StrFunction, Name |-> NameProcess]

ChunkHandle ==
    [FilePath |-> FileB, StartLine |-> 1, EndLine |-> 10,
     ChunkType |-> StrFunction, Name |-> NameHandle]

ChunkOther ==
    [FilePath |-> FileA, StartLine |-> 10, EndLine |-> 15,
     ChunkType |-> StrFunction, Name |-> NameOther]

ChunkFor ==
    [FilePath |-> FileB, StartLine |-> 3, EndLine |-> 5,
     ChunkType |-> StrBlock, Name |-> NameFor]

Chunks == {ChunkProcess, ChunkHandle, ChunkOther, ChunkFor}

\* similarity scores, in hundredths
Scores == {80, 90}

SimilarCodeResults ==
    [Chunk : Chunks, Score : Scores] \cup {[Chunk |-> ChunkHandle, Score |-> 97]}

\* resp.Results of SearchSimilarCode: no chunk is listed twice
SearchResponses ==
    {r \in SeqsUpTo(SimilarCodeResults, MaxResults) :
        \A i, j \in 1..Len(r) : i # j => r[i].Chunk # r[j].Chunk}

DupConfigs ==
    [MinLines : {5}, SkipTrivial : BOOLEAN, MaxFunctionsToCheck : {1, 2},
     SimilarityThreshold : {85}]

DupExclusionConfigs ==
    [files : {{}}, classes : {{}}, functions : {{}, {NameGetX}}]

MinSeverities == {"low", "high"}

\* the summary of a search response kept for the claims: the places of its
\* function-kind results at or above the threshold
Summary(results, threshold) ==
    [outcome |-> "results",
     fn |-> {[FilePath |-> results[i].Chunk.FilePath,
              StartLine |-> results[i].Chunk.StartLine,
              EndLine |-> results[i].Chunk.EndLine] :
                i \in {j \in 1..Len(results) :
                         /\ results[j].Chunk.ChunkType = StrFunction
                         /\ results[j].Score >= threshold}}]

NotSearched == [outcome |-> "none", fn |-> {}]

\* the summary of a findSimilarFunctions call that got no search response
NoResponse(outcome) == [outcome |-> outcome, fn |-> {}]

\* the goroutines of one Detect call: at most two functions pass the
\* MaxFunctionsToCheck limits of DupConfigs
Slots == {1, 2}

StartDup ==
    /\ dupCfg \in DupConfigs
    /\ searchWorkers \in 0..MaxWorkers
    /\ minSeverity \in MinSeverities
    /\ functionsErr \in BOOLEAN
    /\ dupFunctions \in IF functionsErr THEN {<<>>} ELSE FunctionLists
    /\ dpc = "start"
    /\ dupCandidates = <<>>
    /\ dLaunchIdx = 1
    /\ gpc = [i \in Slots |-> "none"]
    /\ dsem = 0
    /\ dmu = {}
    /\ dwg = 0
    /\ dupMatches = [i \in Slots |-> <<>>]
    /\ dupIssues = <<>>
    /\ dupReported = {}
    /\ searched = [i \in Slots |-> NotSearched]
    /\ dRet = <<>>
    /\ dErr = FALSE

ParkedSearches ==
    /\ dupCfg = [MinLines |-> 5, SkipTrivial |-> TRUE, MaxFunctionsToCheck |-> 500,
                 SimilarityThreshold |-> 85]
    /\ searchWorkers = 0
    /\ functionsErr = FALSE
    /\ dupFunctions = <<>>
    /\ dpc = "start"
    /\ dupCandidates = <<>>
    /\ dLaunchIdx = 1
    /\ gpc = [i \in Slots |-> "none"]
    /\ dsem = 0
    /\ dmu = {}
    /\ dwg = 0
    /\ dupMatches = [i \in Slots |-> <<>>]
    /\ dupIssues = <<>>
    /\ dupReported = {}
    /\ searched = [i \in Slots |-> NotSearched]
    /\ dRet = <<>>
    /\ dErr = FALSE

ParkedDup == minSeverity = "low" /\ ParkedSearches

dupInputs == <<dupCfg, searchWorkers, minSeverity, dupFunctions, functionsErr>>

\* Detect up to the launch loop: GetAllFunctionMetrics, the candidate filter
\* and the MaxFunctionsToCheck limit
DetectStart ==
    /\ dpc = "start"
    /\ IF functionsErr
         THEN /\ dpc' = "returned"
              /\ dErr' = TRUE
              /\ UNCHANGED dupCandidates
         ELSE /\ dpc' = "launch"
              /\ dupCandidates' = LimitCandidates(SelectCandidates(dupFunctions, 1, dupCfg),
                                               dupCfg)
              /\ UNCHANGED dErr
    /\ UNCHANGED <<dupInputs, dLaunchIdx, gpc, dsem, dmu, dwg, dupMatches, dupIssues,
                   dupReported, searched, dRet>>
    /\ UNCHANGED notDup

\* one iteration of "for _, fn := range candidates": wg.Add(1); go func
DupLaunch ==
    /\ dpc = "launch"
    /\ dLaunchIdx <= Len(dupCandidates)
    /\ dwg' = dwg + 1
    /\ gpc' = [gpc EXCEPT ![dLaunchIdx] = "start"]
    /\ dLaunchIdx' = dLaunchIdx + 1
    /\ UNCHANGED <<dupInputs, dpc, dupCandidates, dsem, dmu, dupMatches, dupIssues,
                   dupReported, searched, dRet, dErr>>
    /\ UNCHANGED notDup

\* the launch loop ends
DupLaunchDone ==
    /\ dpc = "launch"
    /\ dLaunchIdx > Len(dupCandidates)
    /\ dpc' = "wait"
    /\ UNCHANGED <<dupInputs, dupCandidates, dLaunchIdx, gpc, dsem, dmu, dwg, dupMatches,
                   dupIssues, dupReported, searched, dRet, dErr>>
    /\ UNCHANGED notDup

\* sem <- struct{}{}
DupAcquire(i) ==
    /\ gpc[i] = "start"
    /\ SemHasRoom(dsem, searchWorkers)
    /\ dsem' = dsem + 1
    /\ gpc' = [gpc EXCEPT ![i] = "snippet"]
    /\ UNCHANGED <<dupInputs, dpc, dupCandidates, dLaunchIdx, dmu, dwg, dupMatches,
                   dupIssues, dupReported, searched, dRet, dErr>>
    /\ UNCHANGED notDup

\* findSimilarFunctions: GetSnippet fails
SnippetFails(i) ==
    /\ gpc[i] = "snippet"
    /\ gpc' = [gpc EXCEPT ![i] = "release"]
    /\ searched' = [searched EXCEPT ![i] = NoResponse("snippet error")]
    /\ UNCHANGED <<dupInputs, dpc, dupCandidates, dLaunchIdx, dsem, dmu, dwg, dupMatches,
                   dupIssues, dupReported, dRet, dErr>>
    /\ UNCHANGED notDup

\* findSimilarFunctions: GetSnippet succeeds; an empty snippet or an unknown
\* language returns nil, nil
SnippetReturns(i, empty) ==
    /\ gpc[i] = "snippet"
    /\ IF empty \/ detectLanguage(dupCandidates[i].FilePath) = ""
         THEN /\ gpc' = [gpc EXCEPT ![i] = "lock"]
              /\ searched' = [searched EXCEPT ![i] = NoResponse("not searched")]
         ELSE /\ gpc' = [gpc EXCEPT ![i] = "search"]
              /\ UNCHANGED searched
    /\ UNCHANGED <<dupInputs, dpc, dupCandidates, dLaunchIdx, dsem, dmu, dwg, dupMatches,
                   dupIssues, dupReported, dRet, dErr>>
    /\ UNCHANGED notDup

\* findSimilarFunctions: SearchSimilarCode fails
SearchFails(i) ==
    /\ gpc[i] = "search"
    /\ gpc' = [gpc EXCEPT ![i] = "release"]
    /\ searched' = [searched EXCEPT ![i] = NoResponse("search error")]
    /\ UNCHANGED <<dupInputs, dpc, dupCandidates, dLaunchIdx, dsem, dmu, dwg, dupMatches,
                   dupIssues, dupReported, dRet, dErr>>
    /\ UNCHANGED notDup

\* findSimilarFunctions: SearchSimilarCode succeeds; the filter loop and
\* deduplicateOverlappingMatches
SearchReturns(i, results) ==
    /\ gpc[i] = "search"
    /\ \E deduplicated \in deduplicateOverlappingMatches(
              FilterResults(dupCandidates[i], results, 1, dupCfg.SimilarityThreshold)) :
           dupMatches' = [dupMatches EXCEPT ![i] = deduplicated]
    /\ searched' = [searched EXCEPT ![i] = Summary(results, dupCfg.SimilarityThreshold)]
    /\ gpc' = [gpc EXCEPT ![i] = "lock"]
    /\ UNCHANGED <<dupInputs, dpc, dupCandidates, dLaunchIdx, dsem, dmu, dwg, dupIssues,
                   dupReported, dRet, dErr>>
    /\ UNCHANGED notDup

\* mu.Lock()
DupLock(i) ==
    /\ gpc[i] = "lock"
    /\ dmu = {}
    /\ dmu' = {i}
    /\ gpc' = [gpc EXCEPT ![i] = "report"]
    /\ UNCHANGED <<dupInputs, dpc, dupCandidates, dLaunchIdx, dsem, dwg, dupMatches,
                   dupIssues, dupReported, searched, dRet, dErr>>
    /\ UNCHANGED notDup

\* "for _, match := range matches" and the deferred mu.Unlock()
Report(i) ==
    /\ gpc[i] = "report"
    /\ LET after == ReportLoop(dupCandidates[i], dupMatches[i], 1, dupReported, dupIssues)
       IN  /\ dupReported' = after.reported
           /\ dupIssues' = after.issues
    /\ dmu' = {}
    /\ gpc' = [gpc EXCEPT ![i] = "release"]
    /\ UNCHANGED <<dupInputs, dpc, dupCandidates, dLaunchIdx, dsem, dwg, dupMatches,
                   searched, dRet, dErr>>
    /\ UNCHANGED notDup

\* the deferred <-sem
DupRelease(i) ==
    /\ gpc[i] = "release"
    /\ dsem' = dsem - 1
    /\ gpc' = [gpc EXCEPT ![i] = "done"]
    /\ UNCHANGED <<dupInputs, dpc, dupCandidates, dLaunchIdx, dmu, dwg, dupMatches,
                   dupIssues, dupReported, searched, dRet, dErr>>
    /\ UNCHANGED notDup

\* the deferred wg.Done()
DupWgDone(i) ==
    /\ gpc[i] = "done"
    /\ dwg' = dwg - 1
    /\ gpc' = [gpc EXCEPT ![i] = "exited"]
    /\ UNCHANGED <<dupInputs, dpc, dupCandidates, dLaunchIdx, dsem, dmu, dupMatches,
                   dupIssues, dupReported, searched, dRet, dErr>>
    /\ UNCHANGED notDup

\* wg.Wait() returns; return d.FilterBySeverity(issues), nil
DetectReturn ==
    /\ dpc = "wait"
    /\ WaitReturns(dwg)
    /\ dpc' = "returned"
    /\ dRet' = FilterBySeverity(dupIssues, minSeverity)
    /\ dErr' = FALSE
    /\ UNCHANGED <<dupInputs, dupCandidates, dLaunchIdx, gpc, dsem, dmu, dwg, dupMatches,
                   dupIssues, dupReported, searched>>
    /\ UNCHANGED notDup

NextDup ==
    \/ DetectStart
    \/ DupLaunch
    \/ DupLaunchDone
    \/ \E i \in Slots : DupAcquire(i)
    \/ \E i \in Slots : SnippetFails(i)
    \/ \E i \in Slots, empty \in BOOLEAN : SnippetReturns(i, empty)
    \/ \E i \in Slots : SearchFails(i)
    \/ \E i \in Slots, results \in SearchResponses : SearchReturns(i, results)
    \/ \E i \in Slots : DupLock(i)
    \/ \E i \in Slots : Report(i)
    \/ \E i \in Slots : DupRelease(i)
    \/ \E i \in Slots : DupWgDone(i)
    \/ DetectReturn

-----------------------------------------------------------------------------
(* findSimilarFunctions and the report loop for one candidate *)

NameInner == <<105, 110, 110, 101, 114>>    \* "inner"

\* chunks of b.go: a function, a function touching it in line 10, a block
\* inside it, and two chunks without a chunk type
ChunkInner ==
    [FilePath |-> FileB, StartLine |-> 10, EndLine |-> 12,
     ChunkType |-> StrFunction, Name |-> NameInner]

ChunkUntypedHelper ==
    [FilePath |-> FileB, StartLine |-> 20, EndLine |-> 30,
     ChunkType |-> <<>>, Name |-> NameHelper]

ChunkUntypedFor ==
    [FilePath |-> FileB, StartLine |-> 22, EndLine |-> 24,
     ChunkType |-> <<>>, Name |-> NameFor]

\* a function of b.go away from the others, and one of a.go away from the
\* candidate
ChunkTail ==
    [FilePath |-> FileB, StartLine |-> 20, EndLine |-> 30,
     ChunkType |-> StrFunction, Name |-> NameHelper]

ChunkFar ==
    [FilePath |-> FileA, StartLine |-> 40, EndLine |-> 50,
     ChunkType |-> StrFunction, Name |-> NameOther]

NameMid == <<109, 105, 100>>    \* "mid"

\* a function of b.go that touches ChunkInner in line 12 and ChunkTail in
\* line 20, and is clear of ChunkHandle
ChunkMid ==
    [FilePath |-> FileB, StartLine |-> 12, EndLine |-> 20,
     ChunkType |-> StrFunction, Name |-> NameMid]

SimChunks ==
    {ChunkHandle, ChunkInner, ChunkFor, ChunkUntypedHelper, ChunkUntypedFor, ChunkOther,
     ChunkTail, ChunkFar, ChunkMid}

\* similarity scores, in hundredths: 0.95 is the severity boundary
SimScores == {90, 95, 97}

\* resp.Results of one search: no chunk is listed twice
SimResponses ==
    {r \in SeqsUpTo([Chunk : SimChunks, Score : SimScores], MaxSimResults) :
        \A i, j \in 1..Len(r) : i # j => r[i].Chunk # r[j].Chunk}

\* the comparisons deduplicateOverlappingMatches makes, over all files
DedupLog(matches) ==
    IF Len(matches) <= 1 THEN {}
    ELSE UNION {LET fileMatches == MatchesInFile(matches, f)
                IN  IF Len(fileMatches) = 1 THEN {}
                    ELSE CompareLoop(fileMatches, 1, 2, 1..Len(fileMatches), {}).log :
                  f \in {matches[i].Chunk.FilePath : i \in 1..Len(matches)}}

StartSim ==
    /\ simFn = FnProcess("opaque")
    /\ simResults = <<>>
    /\ simMatches = <<>>
    /\ simKept = <<>>
    /\ simLog = {}
    /\ simIssues = <<>>
    /\ simpc = "start"

ParkedSim ==
    /\ simFn = FnProcess("opaque")
    /\ simResults = <<>>
    /\ simMatches = <<>>
    /\ simKept = <<>>
    /\ simLog = {}
    /\ simIssues = <<>>
    /\ simpc = "start"

\* findSimilarFunctions from the search response (results) on: the filter
\* loop and deduplicateOverlappingMatches
findSimilarFunctions ==
    /\ simpc = "start"
    /\ UNCHANGED notSim
    /\ \E results \in SimResponses :
          LET filtered == FilterResults(simFn, results, 1, dupCfg.SimilarityThreshold)
          IN  /\ simResults' = results
              /\ simMatches' = filtered
              /\ simKept' \in deduplicateOverlappingMatches(filtered)
              /\ simLog' = DedupLog(filtered)
    /\ simpc' = "searched"
    /\ UNCHANGED <<simFn, simIssues>>

\* Detect's "for _, match := range matches" on the returned matches
SimReport ==
    /\ simpc = "searched"
    /\ UNCHANGED notSim
    /\ simIssues' = ReportLoop(simFn, simKept, 1, {}, <<>>).issues
    /\ simpc' = "reported"
    /\ UNCHANGED <<simFn, simResults, simMatches, simKept, simLog>>

NextSim ==
    \/ findSimilarFunctions
    \/ SimReport

-----------------------------------------------------------------------------
(* DuplicationDetector.Detect over larger function metrics: the candidate  *)
(* filter and the MaxFunctionsToCheck limit                                *)

NameTiny == <<116, 105, 110, 121>>    \* "tiny"

NameSmall == <<115, 109, 97, 108, 108>>    \* "small"

NameBranchy == <<98, 114, 97, 110, 99, 104, 121>>    \* "branchy"

\* shorter than MinLines
FnTiny ==
    [ID |-> <<102, 52>>, Name |-> NameTiny,
     FilePath |-> FileA, ClassName |-> <<>>, StartLine |-> 30, EndLine |-> 33,
     LineCount |-> 3, CyclomaticComplexity |-> 3]

\* five lines and no branch
FnSmall ==
    [ID |-> <<102, 53>>, Name |-> NameSmall,
     FilePath |-> FileB, ClassName |-> <<>>, StartLine |-> 20, EndLine |-> 25,
     LineCount |-> 5, CyclomaticComplexity |-> 1]

\* five lines and one branch
FnBranchy ==
    [ID |-> <<102, 54>>, Name |-> NameBranchy,
     FilePath |-> FileB, ClassName |-> <<>>, StartLine |-> 40, EndLine |-> 45,
     LineCount |-> 5, CyclomaticComplexity |-> 2]

CandidateFunctions ==
    {FnProcess("opaque"), FnGetX("opaque"), FnTiny, FnSmall, FnBranchy}

\* the slices GetAllFunctionMetrics can return: no function is listed twice
CandidateLists ==
    {l \in SeqsUpTo(CandidateFunctions, MaxCandFunctions) :
        \A i, j \in 1..Len(l) : i # j => l[i] # l[j]}

CandidateResponses == {<<>>, <<[Chunk |-> ChunkFar, Score |-> 90]>>}

StartCandidates ==
    /\ dupCfg \in DupConfigs
    /\ searchWorkers = 1
    /\ minSeverity = "low"
    /\ functionsErr \in BOOLEAN
    /\ dupFunctions \in IF functionsErr THEN {<<>>} ELSE CandidateLists
    /\ dpc = "start"
    /\ dupCandidates = <<>>
    /\ dLaunchIdx = 1
    /\ gpc = [i \in Slots |-> "none"]
    /\ dsem = 0
    /\ dmu = {}
    /\ dwg = 0
    /\ dupMatches = [i \in Slots |-> <<>>]
    /\ dupIssues = <<>>
    /\ dupReported = {}
    /\ searched = [i \in Slots |-> NotSearched]
    /\ dRet = <<>>
    /\ dErr = FALSE

NextCandidates ==
    \/ DetectStart
    \/ DupLaunch
    \/ DupLaunchDone
    \/ \E i \in Slots : DupAcquire(i)
    \/ \E i \in Slots : SnippetFails(i)
    \/ \E i \in Slots, empty \in BOOLEAN : SnippetReturns(i, empty)
    \/ \E i \in Slots : SearchFails(i)
    \/ \E i \in Slots, results \in CandidateResponses : SearchReturns(i, results)
    \/ \E i \in Slots : DupLock(i)
    \/ \E i \in Slots : Report(i)
    \/ \E i \in Slots : DupRelease(i)
    \/ \E i \in Slots : DupWgDone(i)
    \/ DetectReturn

-----------------------------------------------------------------------------
(* BaseDetector.FilterBySeverity on its own *)

\* the Severity strings an issue can carry: the four levels and one that is
\* none of them
IssueSeverities == {"low", "medium", "high", "critical", "info"}

\* Cfg.Severity.MinSeverity values: the four levels and one that is none of them
MinSeverityValues == {"low", "medium", "high", "critical", "urgent"}

\* the minimum of one FilterBySeverity call: those, the empty string and a
\* level in another case
FilterMinSeverities == MinSeverityValues \cup {"", "High"}

FilterInputs == SeqsUpTo([Severity : IssueSeverities], MaxFilterLen)

StartFilter ==
    /\ fIn \in FilterInputs
    /\ fOut = <<>>
    /\ fpc = "start"

ParkedFilter ==
    /\ fIn = <<>>
    /\ fOut = <<>>
    /\ fpc = "start"

\* one call of FilterBySeverity
FilterCall ==
    /\ fpc = "start"
    /\ fOut' = FilterBySeverity(fIn, minSeverity)
    /\ fpc' = "done"
    /\ UNCHANGED fIn
    /\ UNCHANGED notFilter

NextFilter == FilterCall

-----------------------------------------------------------------------------
(* ComplexityDetector, SizeAndStructureDetector and CouplingDetector: Detect *)

\* DetectorsConfig thresholds (config/defaults.go)
CyclomaticModerate == 10
CyclomaticHigh == 15
CyclomaticCritical == 20
MaxNestingDepth == 4
MaxFunctionLines == 50
MaxParameters == 5
MaxClassMethods == 20
MaxClassFields == 15
MaxFileLines == 500
MaxFileFunctions == 20
MaxDependencies == 10
FeatureEnvyThreshold == 3
PrimitiveFieldThreshold == 8

Max(a, b) == IF a > b THEN a ELSE b

\* a switch that never reaches its first two cases
AlwaysMedium(cc) == "medium"

\* the switch of createCCIssue
ccSeverity(cc) ==
    IF cc > CyclomaticCritical THEN "critical"
    ELSE IF cc > CyclomaticHigh THEN "high"
    ELSE "medium"

createCCIssue(fn) ==
    [Category |-> "complexity",
     Subcategory |-> "cyclomatic_complexity",
     Severity |-> ccSeverity(fn.CyclomaticComplexity),
     FilePath |-> fn.FilePath,
     StartLine |-> fn.StartLine,
     EndLine |-> fn.EndLine,
     EntityName |-> fn.Name,
     EntityType |-> "function",
     Metrics |-> [cyclomatic_complexity |-> fn.CyclomaticComplexity,
                  conditionals |-> fn.ConditionalCount,
                  loops |-> fn.LoopCount,
                  branches |-> fn.BranchCount]]

createNestingIssue(fn) ==
    [Category |-> "complexity",
     Subcategory |-> "deep_nesting",
     Severity |-> IF fn.MaxNestingDepth > 6 THEN "critical"
                  ELSE IF fn.MaxNestingDepth > 5 THEN "high"
                  ELSE "medium",
     FilePath |-> fn.FilePath,
     StartLine |-> fn.StartLine,
     EndLine |-> fn.EndLine,
     EntityName |-> fn.Name,
     EntityType |-> "function",
     Metrics |-> [nesting_depth |-> fn.MaxNestingDepth]]

RECURSIVE ComplexityLoop(_, _)
\* the range loop of ComplexityDetector.Detect, from function i on
ComplexityLoop(functions, i) ==
    IF i > Len(functions) THEN <<>>
    ELSE LET fn == functions[i]
             rest == ComplexityLoop(functions, i + 1)
         IN  IF ShouldExclude(fn.FilePath, fn.ClassName, fn.Name) THEN rest
             ELSE (IF fn.CyclomaticComplexity > CyclomaticModerate
                     THEN <<createCCIssue(fn)>> ELSE <<>>)
                  \o (IF fn.MaxNestingDepth > MaxNestingDepth
                        THEN <<createNestingIssue(fn)>> ELSE <<>>)
                  \o rest

\* medium, or high when the value is above twice the threshold
sizeSeverity(value, threshold) ==
    IF value > threshold * 2 THEN "high" ELSE "medium"

createLongMethodIssue(fn) ==
    [Category |-> "size",
     Subcategory |-> "long_method",
     Severity |-> sizeSeverity(fn.LineCount, MaxFunctionLines),
     FilePath |-> fn.FilePath,
     StartLine |-> fn.StartLine,
     EndLine |-> fn.EndLine,
     EntityName |-> fn.Name,
     EntityType |-> "function",
     Metrics |-> [line_count |-> fn.LineCount, threshold |-> MaxFunctionLines]]

createLongParameterListIssue(fn) ==
    [Category |-> "size",
     Subcategory |-> "long_parameter_list",
     Severity |-> sizeSeverity(fn.ParameterCount, MaxParameters),
     FilePath |-> fn.FilePath,
     StartLine |-> fn.StartLine,
     EndLine |-> fn.EndLine,
     EntityName |-> fn.Name,
     EntityType |-> "function",
     Metrics |-> [parameter_count |-> fn.ParameterCount, threshold |-> MaxParameters]]

createGodClassMethodIssue(cls) ==
    [Category |-> "size",
     Subcategory |-> "god_class",
     Severity |-> sizeSeverity(cls.MethodCount, MaxClassMethods),
     FilePath |-> cls.FilePath,
     StartLine |-> cls.StartLine,
     EndLine |-> cls.EndLine,
     EntityName |-> cls.Name,
     EntityType |-> "class",
     Metrics |-> [method_count |-> cls.MethodCount, threshold |-> MaxClassMethods]]

createGodClassFieldIssue(cls) ==
    [Category |-> "size",
     Subcategory |-> "god_class",
     Severity |-> sizeSeverity(cls.FieldCount, MaxClassFields),
     FilePath |-> cls.FilePath,
     StartLine |-> cls.StartLine,
     EndLine |-> cls.EndLine,
     EntityName |-> cls.Name,
     EntityType |-> "class",
     Metrics |-> [field_count |-> cls.FieldCount, threshold |-> MaxClassFields]]

createLargeFileLineIssue(file) ==
    [Category |-> "size",
     Subcategory |-> "large_file",
     Severity |-> sizeSeverity(file.LineCount, MaxFileLines),
     FilePath |-> file.Path,
     StartLine |-> 1,
     EndLine |-> file.LineCount,
     EntityName |-> file.Path,
     EntityType |-> "file",
     Metrics |-> [line_count |-> file.LineCount, threshold |-> MaxFileLines]]

createLargeFileFunctionIssue(file) ==
    [Category |-> "size",
     Subcategory |-> "large_file",
     Severity |-> sizeSeverity(file.FunctionCount, MaxFileFunctions),
     FilePath |-> file.Path,
     StartLine |-> 1,
     EndLine |-> file.LineCount,
     EntityName |-> file.Path,
     EntityType |-> "file",
     Metrics |-> [function_count |-> file.FunctionCount, threshold |-> MaxFileFunctions]]

RECURSIVE FunctionIssuesLoop(_, _)
\* the range loop of detectFunctionIssues, from function i on
FunctionIssuesLoop(functions, i) ==
    IF i > Len(functions) THEN <<>>
    ELSE LET fn == functions[i]
             rest == FunctionIssuesLoop(functions, i + 1)
         IN  IF ShouldExclude(fn.FilePath, fn.ClassName, fn.Name) THEN rest
             ELSE (IF fn.LineCount > MaxFunctionLines
                     THEN <<createLongMethodIssue(fn)>> ELSE <<>>)
                  \o (IF fn.ParameterCount > MaxParameters
                        THEN <<createLongParameterListIssue(fn)>> ELSE <<>>)
                  \o rest

RECURSIVE ClassIssuesLoop(_, _)
\* the range loop of detectClassIssues, from class i on
ClassIssuesLoop(classes, i) ==
    IF i > Len(classes) THEN <<>>
    ELSE LET cls == classes[i]
             rest == ClassIssuesLoop(classes, i + 1)
         IN  IF ShouldExclude(cls.FilePath, cls.Name, <<>>) THEN rest
             ELSE (IF cls.MethodCount > MaxClassMethods
                     THEN <<createGodClassMethodIssue(cls)>> ELSE <<>>)
                  \o (IF cls.FieldCount > MaxClassFields
                        THEN <<createGodClassFieldIssue(cls)>> ELSE <<>>)
                  \o rest

RECURSIVE FileIssuesLoop(_, _)
\* the range loop of detectFileIssues, from file i on
FileIssuesLoop(files, i) ==
    IF i > Len(files) THEN <<>>
    ELSE LET file == files[i]
             rest == FileIssuesLoop(files, i + 1)
         IN  IF ShouldExclude(file.Path, <<>>, <<>>) THEN rest
             ELSE (IF file.LineCount > MaxFileLines
                     THEN <<createLargeFileLineIssue(file)>> ELSE <<>>)
                  \o (IF file.FunctionCount > MaxFileFunctions
                        THEN <<createLargeFileFunctionIssue(file)>> ELSE <<>>)
                  \o rest

\* a condition without the class-name and threshold tests
MoreExternalThanOwn(fn) == fn.ExternalFieldUses > fn.OwnFieldUses

\* the condition of detectFeatureEnvy
IsFeatureEnvy(fn) ==
    /\ fn.ClassName # <<>>
    /\ fn.ExternalFieldUses > fn.OwnFieldUses
    /\ fn.ExternalFieldUses > FeatureEnvyThreshold

\* ratio := float64(ExternalFieldUses) / float64(max(OwnFieldUses, 1)), kept as
\* the two integers divided: the divisor is at least 1
envyRatio(fn) == [num |-> fn.ExternalFieldUses, den |-> Max(fn.OwnFieldUses, 1)]

\* ratio > 3: for int operands the float64 quotient is above 3 exactly when
\* num > 3 * den
RatioAbove3(ratio) == ratio.num > 3 * ratio.den

FeatureEnvyIssue(fn) ==
    [Category |-> "coupling",
     Subcategory |-> "feature_envy",
     Severity |-> IF RatioAbove3(envyRatio(fn)) THEN "high" ELSE "medium",
     FilePath |-> fn.FilePath,
     StartLine |-> fn.StartLine,
     EndLine |-> fn.EndLine,
     EntityName |-> fn.Name,
     EntityType |-> "function",
     Metrics |-> [external_field_uses |-> fn.ExternalFieldUses,
                  own_field_uses |-> fn.OwnFieldUses,
                  ratio |-> envyRatio(fn)]]

RECURSIVE FeatureEnvyLoop(_, _)
\* the range loop of detectFeatureEnvy, from function i on
FeatureEnvyLoop(functions, i) ==
    IF i > Len(functions) THEN <<>>
    ELSE LET fn == functions[i]
             rest == FeatureEnvyLoop(functions, i + 1)
         IN  IF ShouldExclude(fn.FilePath, fn.ClassName, fn.Name) THEN rest
             ELSE IF IsFeatureEnvy(fn) THEN <<FeatureEnvyIssue(fn)>> \o rest
             ELSE rest

HighCouplingIssue(cls) ==
    [Category |-> "coupling",
     Subcategory |-> "high_coupling",
     Severity |-> IF cls.DependencyCount > MaxDependencies * 2 THEN "high" ELSE "medium",
     FilePath |-> cls.FilePath,
     StartLine |-> cls.StartLine,
     EndLine |-> cls.EndLine,
     EntityName |-> cls.Name,
     EntityType |-> "class",
     Metrics |-> [dependency_count |-> cls.DependencyCount,
                  threshold |-> MaxDependencies]]

RECURSIVE HighCouplingLoop(_, _)
\* the range loop of detectHighCoupling, from class i on
HighCouplingLoop(classes, i) ==
    IF i > Len(classes) THEN <<>>
    ELSE LET cls == classes[i]
             rest == HighCouplingLoop(classes, i + 1)
         IN  IF ShouldExclude(cls.FilePath, cls.Name, <<>>) THEN rest
             ELSE IF cls.DependencyCount > MaxDependencies
               THEN <<HighCouplingIssue(cls)>> \o rest
             ELSE rest

PrimitiveObsessionIssue(cls) ==
    [Category |-> "coupling",
     Subcategory |-> "primitive_obsession",
     Severity |-> "medium",
     FilePath |-> cls.FilePath,
     StartLine |-> cls.StartLine,
     EndLine |-> cls.EndLine,
     EntityName |-> cls.Name,
     EntityType |-> "class",
     Metrics |-> [primitive_field_count |-> cls.PrimitiveFieldCount,
                  total_field_count |-> cls.FieldCount,
                  threshold |-> PrimitiveFieldThreshold]]

RECURSIVE PrimitiveObsessionLoop(_, _)
\* the range loop of detectPrimitiveObsession, from class i on
PrimitiveObsessionLoop(classes, i) ==
    IF i > Len(classes) THEN <<>>
    ELSE LET cls == classes[i]
             rest == PrimitiveObsessionLoop(classes, i + 1)
         IN  IF ShouldExclude(cls.FilePath, cls.Name, <<>>) THEN rest
             ELSE IF cls.PrimitiveFieldCount > PrimitiveFieldThreshold
               THEN <<PrimitiveObsessionIssue(cls)>> \o rest
             ELSE rest

\* a FunctionMetrics row below every threshold
PlainFunction ==
    [Name |-> NameProcess, FilePath |-> "a.go", ClassName |-> <<>>,
     StartLine |-> 1, EndLine |-> 10, LineCount |-> 9, ParameterCount |-> 2,
     CyclomaticComplexity |-> 3, ConditionalCount |-> 1, LoopCount |-> 1,
     BranchCount |-> 0, MaxNestingDepth |-> 2,
     OwnFieldUses |-> 0, ExternalFieldUses |-> 0]

\* a ClassMetrics row below every threshold
PlainClass ==
    [Name |-> NameA, FilePath |-> "a.go", StartLine |-> 1, EndLine |-> 40,
     MethodCount |-> 5, FieldCount |-> 10, PrimitiveFieldCount |-> 2,
     DependencyCount |-> 1]

\* cyclomatic complexities at and just above each threshold
ComplexityValues ==
    {CyclomaticModerate, CyclomaticModerate + 1, CyclomaticHigh, CyclomaticHigh + 1,
     CyclomaticCritical, CyclomaticCritical + 1}

NestingValues == {MaxNestingDepth, MaxNestingDepth + 3}

\* the rows GetAllFunctionMetrics hands to the complexity detector
ComplexityFunctions ==
    {[PlainFunction EXCEPT !.FilePath = f, !.CyclomaticComplexity = cc,
                           !.MaxNestingDepth = depth] :
        f \in {"a.go", "gen/a.go"}, cc \in ComplexityValues, depth \in NestingValues}

\* ExternalFieldUses and OwnFieldUses on both sides of the threshold, of each
\* other and of the ratio 3
FieldUses ==
    {[ext |-> FeatureEnvyThreshold, own |-> 0],
     [ext |-> FeatureEnvyThreshold + 1, own |-> 0],
     [ext |-> FeatureEnvyThreshold + 1, own |-> 2],
     [ext |-> FeatureEnvyThreshold + 1, own |-> FeatureEnvyThreshold + 1],
     [ext |-> 6, own |-> 2],
     [ext |-> 7, own |-> 2]}

\* the rows GetAllFunctionMetrics hands to detectFeatureEnvy
EnvyFunctions ==
    {[PlainFunction EXCEPT !.ClassName = c, !.ExternalFieldUses = u.ext,
                           !.OwnFieldUses = u.own] :
        c \in {<<>>, NameA, NameB}, u \in FieldUses}

\* the rows GetAllFunctionMetrics hands to detectFunctionIssues
SizeFunctions ==
    {[PlainFunction EXCEPT !.LineCount = n.lines, !.ParameterCount = n.params] :
        n \in {[lines |-> MaxFunctionLines, params |-> MaxParameters],
               [lines |-> MaxFunctionLines + 1, params |-> MaxParameters],
               [lines |-> MaxFunctionLines * 2 + 1, params |-> MaxParameters + 1],
               [lines |-> MaxFunctionLines, params |-> MaxParameters * 2 + 1]}}

\* the rows GetAllClassMetrics hands to detectClassIssues
SizeClasses ==
    {[PlainClass EXCEPT !.MethodCount = n.methods, !.FieldCount = n.fields] :
        n \in {[methods |-> MaxClassMethods, fields |-> MaxClassFields],
               [methods |-> MaxClassMethods + 1, fields |-> MaxClassFields],
               [methods |-> MaxClassMethods * 2 + 1, fields |-> MaxClassFields + 1],
               [methods |-> MaxClassMethods, fields |-> MaxClassFields * 2 + 1]}}

\* the rows GetAllFileMetrics hands to detectFileIssues
SizeFiles ==
    {[Path |-> "a.go", LineCount |-> MaxFileLines, FunctionCount |-> MaxFileFunctions],
     [Path |-> "a.go", LineCount |-> MaxFileLines + 1, FunctionCount |-> MaxFileFunctions],
     [Path |-> "b.go", LineCount |-> MaxFileLines * 2 + 1,
      FunctionCount |-> MaxFileFunctions + 1],
     [Path |-> "b.go", LineCount |-> MaxFileLines,
      FunctionCount |-> MaxFileFunctions * 2 + 1],
     [Path |-> "gen/a.go", LineCount |-> MaxFileLines + 1,
      FunctionCount |-> MaxFileFunctions]}

\* the rows GetAllClassMetrics hands to detectHighCoupling and
\* detectPrimitiveObsession
CouplingClasses ==
    {[PlainClass EXCEPT !.DependencyCount = n.deps, !.PrimitiveFieldCount = n.prims] :
        n \in {[deps |-> MaxDependencies, prims |-> PrimitiveFieldThreshold],
               [deps |-> MaxDependencies + 1, prims |-> PrimitiveFieldThreshold],
               [deps |-> MaxDependencies * 2, prims |-> PrimitiveFieldThreshold + 1],
               [deps |-> MaxDependencies * 2 + 1, prims |-> PrimitiveFieldThreshold + 1]}}

\* the rows GetClassPairMetrics hands to the coupling detector's third sub-check
CouplingClassPairs ==
    {r \in ClassPairRecords :
        /\ r.Class1Name = NameA /\ r.Class1File = "a.go" /\ r.Class2Name = NameB
        /\ r.Calls2To1 \in CallCounts1To2}

\* what one metrics accessor returns: an error, or up to MaxMetricRows rows
FetchResults(rows) ==
    {[err |-> TRUE, rows |-> <<>>]}
        \cup {[err |-> FALSE, rows |-> r] : r \in SeqsUpTo(rows, MaxMetricRows)}

\* no exclusions; a file and a class pattern; a class and a function pattern
DetectExclusionConfigs ==
    {NoExclusions,
     [files |-> {"gen/a.go"}, classes |-> {NameB}, functions |-> {}],
     [files |-> {}, classes |-> {NameA}, functions |-> {NameProcess}]}

\* an error return that keeps the issues collected so far
ReturnCollected(issues) == [issues |-> issues, err |-> TRUE]

\* return nil, err
ReturnError(issues) == [issues |-> <<>>, err |-> TRUE]

StartDetect ==
    /\ detName \in {"complexity", "size_structure", "coupling"}
    /\ dtpc = "start"
    /\ dtIssues = <<>>
    /\ fetched = [err |-> FALSE, rows |-> <<>>]
    /\ dtRet = <<>>
    /\ dtErr = FALSE

ParkedDetect ==
    /\ detName = "none"
    /\ dtpc = "start"
    /\ dtIssues = <<>>
    /\ fetched = [err |-> FALSE, rows |-> <<>>]
    /\ dtRet = <<>>
    /\ dtErr = FALSE

\* one sub-check of a Detect call: the accessor's result res, the error check,
\* the append of the sub-check's issues found, and after the last sub-check
\* (next = "returned") return d.FilterBySeverity(issues), nil
SubCheck(res, found, next) ==
    /\ UNCHANGED detName
    /\ fetched' = res
    /\ IF res.err
         THEN /\ dtpc' = "returned"
              /\ dtRet' = ReturnError(dtIssues).issues
              /\ dtErr' = ReturnError(dtIssues).err
              /\ UNCHANGED dtIssues
         ELSE /\ dtpc' = next
              /\ dtIssues' = dtIssues \o found
              /\ IF next = "returned"
                   THEN /\ dtRet' = FilterBySeverity(dtIssues \o found, minSeverity)
                        /\ dtErr' = FALSE
                   ELSE UNCHANGED <<dtRet, dtErr>>
    /\ UNCHANGED notDetect

\* ComplexityDetector.Detect
ComplexityDetect(res) ==
    /\ detName = "complexity"
    /\ dtpc = "start"
    /\ SubCheck(res, ComplexityLoop(res.rows, 1), "returned")

\* SizeAndStructureDetector.Detect: detectFunctionIssues
detectFunctionIssues(res) ==
    /\ detName = "size_structure"
    /\ dtpc = "start"
    /\ SubCheck(res, FunctionIssuesLoop(res.rows, 1), "classes")

\* SizeAndStructureDetector.Detect: detectClassIssues
detectClassIssues(res) ==
    /\ detName = "size_structure"
    /\ dtpc = "classes"
    /\ SubCheck(res, ClassIssuesLoop(res.rows, 1), "files")

\* SizeAndStructureDetector.Detect: detectFileIssues and the return
detectFileIssues(res) ==
    /\ detName = "size_structure"
    /\ dtpc = "files"
    /\ SubCheck(res, FileIssuesLoop(res.rows, 1), "returned")

\* CouplingDetector.Detect: detectFeatureEnvy
detectFeatureEnvy(res) ==
    /\ detName = "coupling"
    /\ dtpc = "start"
    /\ SubCheck(res, FeatureEnvyLoop(res.rows, 1), "high coupling")

\* CouplingDetector.Detect: detectHighCoupling
detectHighCoupling(res) ==
    /\ detName = "coupling"
    /\ dtpc = "high coupling"
    /\ SubCheck(res, HighCouplingLoop(res.rows, 1), "intimacy")

\* CouplingDetector.Detect: its call of detectInappropriateIntimacy
DetectIntimacy(res) ==
    /\ detName = "coupling"
    /\ dtpc = "intimacy"
    /\ SubCheck(res, IntimacyLoop(res.rows, 1, {}, <<>>), "primitive obsession")

\* CouplingDetector.Detect: detectPrimitiveObsession and the return
detectPrimitiveObsession(res) ==
    /\ detName = "coupling"
    /\ dtpc = "primitive obsession"
    /\ SubCheck(res, PrimitiveObsessionLoop(res.rows, 1), "returned")

NextDetect ==
    \/ \E res \in FetchResults(ComplexityFunctions) : ComplexityDetect(res)
    \/ \E res \in FetchResults(SizeFunctions) : detectFunctionIssues(res)
    \/ \E res \in FetchResults(SizeClasses) : detectClassIssues(res)
    \/ \E res \in FetchResults(SizeFiles) : detectFileIssues(res)
    \/ \E res \in FetchResults(EnvyFunctions) : detectFeatureEnvy(res)
    \/ \E res \in FetchResults(CouplingClasses) : detectHighCoupling(res)
    \/ \E res \in FetchResults(CouplingClassPairs) : DetectIntimacy(res)
    \/ \E res \in FetchResults(CouplingClasses) : detectPrimitiveObsession(res)

-----------------------------------------------------------------------------
(* codeapi.Client.post, doPost and shouldRetry *)

NoError == [kind |-> "nil", status |-> 0]

\* &APIError{StatusCode: resp.StatusCode, ...}: doPost makes one for a status >= 400
APIError(code) == [kind |-> "api", status |-> code]

\* fmt.Errorf("executing request: %w", err) and fmt.Errorf("decoding response: %w", err)
TransportError == [kind |-> "executing request", status |-> 0]

DecodingError == [kind |-> "decoding response", status |-> 0]

ContextError == [kind |-> "context", status |-> 0]

\* status codes >= 400 the server answers with in the model
ErrorStatuses == {404, 500, 503}

\* what one doPost can return
DoPostOutcomes ==
    {NoError, TransportError, DecodingError} \cup {APIError(s) : s \in ErrorStatuses}

RetryConfigs ==
    [MaxAttempts : 0..MaxRetryAttempts, RetryOnStatus : {{}, {503}, {502, 503, 504}}]

\* shouldRetry: an *APIError whose StatusCode is in RetryOnStatus
RetryAnyError(err) == TRUE

shouldRetry(err) == err.kind = "api" /\ err.status \in retryConf.RetryOnStatus

StartClient ==
    /\ retryConf \in RetryConfigs
    /\ cpc = "idle"
    /\ attempt = 0
    /\ attempts = <<>>
    /\ cret = NoError

ParkedClient ==
    /\ retryConf = [MaxAttempts |-> 0, RetryOnStatus |-> {}]
    /\ cpc = "idle"
    /\ attempt = 0
    /\ attempts = <<>>
    /\ cret = NoError

\* post is called: var lastErr error; attempt := 0; 0 <= MaxAttempts holds
post ==
    /\ cpc = "idle"
    /\ cpc' = "attempt"
    /\ UNCHANGED <<retryConf, attempt, attempts, cret>>
    /\ UNCHANGED notClient

\* one turn of the loop from doPost on: return nil on success; else
\* lastErr = err, break unless shouldRetry, attempt++ and the loop test
doPost(err) ==
    /\ cpc = "attempt"
    /\ attempts' = Append(attempts, err)
    /\ IF err = NoError
         THEN /\ cpc' = "returned"
              /\ cret' = NoError
              /\ UNCHANGED attempt
         ELSE IF shouldRetry(err) /\ attempt + 1 <= retryConf.MaxAttempts
                THEN /\ cpc' = "backoff"
                     /\ attempt' = attempt + 1
                     /\ UNCHANGED cret
                ELSE /\ cpc' = "returned"
                     /\ cret' = err
                     /\ UNCHANGED attempt
    /\ UNCHANGED retryConf
    /\ UNCHANGED notClient

\* case <-time.After(delay): the next attempt starts
BackoffElapsed ==
    /\ cpc = "backoff"
    /\ cpc' = "attempt"
    /\ UNCHANGED <<retryConf, attempt, attempts, cret>>
    /\ UNCHANGED notClient

\* what post returns when ctx.Done() fires in the wait: ctx.Err(), not lastErr
ReturnLastErr(lastErr) == lastErr

ReturnOnCancel(lastErr) == ContextError

\* case <-ctx.Done(): return ctx.Err()
ContextDone ==
    /\ cpc = "backoff"
    /\ cpc' = "returned"
    /\ cret' = ReturnOnCancel(attempts[Len(attempts)])
    /\ UNCHANGED <<retryConf, attempt, attempts>>
    /\ UNCHANGED notClient

NextClient ==
    \/ post
    \/ \E err \in DoPostOutcomes : doPost(err)
    \/ BackoffElapsed
    \/ ContextDone

-----------------------------------------------------------------------------
(* AnalysisController.generateSummary and calculateDebtScore *)

SummaryFiles == {"a.go", "b.go", "c.go"}

SummaryCategories == {"complexity", "duplication"}

SummaryIssues ==
    [Category : SummaryCategories, Severity : IssueSeverities, FilePath : SummaryFiles]

\* n copies of x
Repeat(x, n) == [i \in 1..n |-> x]

\* issue collections with up to two issues in each file
PerFileInputs ==
    {Repeat([Category |-> "complexity", Severity |-> "low", FilePath |-> "a.go"], na)
       \o Repeat([Category |-> "complexity", Severity |-> "high", FilePath |-> "b.go"], nb)
       \o Repeat([Category |-> "duplication", Severity |-> "medium", FilePath |-> "c.go"], nc) :
         na \in 0..2, nb \in 0..2, nc \in 0..2}

\* issue collections around the point where the weighted sum passes 1000:
\* 66 critical issues (990) followed by a few more
BulkTails ==
    {<<>>,
     <<[Category |-> "complexity", Severity |-> "critical", FilePath |-> "b.go"]>>,
     <<[Category |-> "duplication", Severity |-> "high", FilePath |-> "b.go"],
       [Category |-> "duplication", Severity |-> "medium", FilePath |-> "c.go"]>>,
     <<[Category |-> "duplication", Severity |-> "high", FilePath |-> "b.go"],
       [Category |-> "duplication", Severity |-> "medium", FilePath |-> "c.go"],
       [Category |-> "duplication", Severity |-> "low", FilePath |-> "c.go"]>>}

BulkInputs ==
    {Repeat([Category |-> "complexity", Severity |-> "critical", FilePath |-> "a.go"], 66)
       \o tail : tail \in BulkTails}

SummaryInputs == SeqsUpTo(SummaryIssues, MaxSummaryLen) \cup PerFileInputs \cup BulkInputs

\* the weights map of calculateDebtScore; a missing key reads as 0
weights(severity) ==
    CASE severity = "low" -> 1
      [] severity = "medium" -> 3
      [] severity = "high" -> 7
      [] severity = "critical" -> 15
      [] OTHER -> 0

RECURSIVE TotalWeight(_, _)
\* "for _, issue := range issues { total += weights[issue.Severity] }"
TotalWeight(issues, i) ==
    IF i > Len(issues) THEN 0
    ELSE weights(issues[i].Severity) + TotalWeight(issues, i + 1)

\* the score in tenths when the clamp is left out
NoClamp(total) == total

\* score := float64(total) / 10.0; if score > 100 { score = 100 }, in tenths:
\* the quotient exceeds 100 exactly when total exceeds 1000
ClampScore(total) == IF total > 1000 THEN 1000 ELSE total

\* AnalysisController.calculateDebtScore, in tenths
calculateDebtScore(issues) ==
    IF Len(issues) = 0 THEN 0 ELSE ClampScore(TotalWeight(issues, 1))

\* a map[K]int built by counting: the keys are the values that occur
CountBy(issues, field) ==
    [k \in {issues[i][field] : i \in 1..Len(issues)} |->
        Cardinality({i \in 1..Len(issues) : issues[i][field] = k})]

\* the comparison of the sort loop with the exchange left out
NeverExchange(countJ, countI) == FALSE

\* "if files[j].count > files[i].count": exchange files[i] and files[j]
Exchange(countJ, countI) == countJ > countI

RECURSIVE SortLoop(_, _, _)
\* the nested i/j loops that order files by count, descending
SortLoop(files, i, j) ==
    IF i > Len(files) THEN files
    ELSE IF j > Len(files) THEN SortLoop(files, i + 1, i + 2)
    ELSE IF Exchange(files[j].count, files[i].count)
      THEN SortLoop([files EXCEPT ![i] = files[j], ![j] = files[i]], i, j + 1)
    ELSE SortLoop(files, i, j + 1)

\* the files slice for one iteration order of the byFile map
FileCounts(byFile, order) ==
    [i \in 1..Len(order) |-> [path |-> order[i], count |-> byFile[order[i]]]]

\* the hotspots slice: the first min(topN, len(files)) sorted entries
Hotspots(files, n) ==
    LET sorted == SortLoop(files, 1, 2)
        top == IF n > Len(sorted) THEN Len(sorted) ELSE n
    IN  [i \in 1..top |-> [FilePath |-> sorted[i].path, IssueCount |-> sorted[i].count]]

NoSummary ==
    [TotalIssues |-> 0, ByCategory |-> <<>>, BySeverity |-> <<>>,
     HotspotFiles |-> <<>>, DebtScore |-> 0]

StartSummary ==
    /\ sIssues \in SummaryInputs
    /\ topN \in 0..MaxTopN
    /\ summary = NoSummary
    /\ spc = "start"

ParkedSummary ==
    /\ sIssues = <<>>
    /\ topN = 0
    /\ summary = NoSummary
    /\ spc = "start"

\* AnalysisController.generateSummary
generateSummary ==
    /\ spc = "start"
    /\ LET byFile == CountBy(sIssues, "FilePath")
       IN  \E order \in MapOrders(DOMAIN byFile) :
             summary' = [TotalIssues |-> Len(sIssues),
                         ByCategory |-> CountBy(sIssues, "Category"),
                         BySeverity |-> CountBy(sIssues, "Severity"),
                         HotspotFiles |-> Hotspots(FileCounts(byFile, order), topN),
                         DebtScore |-> calculateDebtScore(sIssues)]
    /\ spc' = "done"
    /\ UNCHANGED <<sIssues, topN>>
    /\ UNCHANGED notSummary

NextSummary == generateSummary

ParkedProvider ==
    /\ cfgEnabled = TRUE
    /\ cache = [k \in Kinds |-> NilSlice]
    /\ readers = {}
    /\ writer = {}
    /\ ppc = [c \in Callers |-> "idle"]
    /\ pkind = [c \in Callers |-> "functionMetrics"]
    /\ pret = [c \in Callers |-> NilSlice]
    /\ perr = [c \in Callers |-> FALSE]
    /\ pcalls = 0
    /\ queries = [k \in Kinds |-> 0]
    /\ failFetches = [k \in Kinds |-> 0]
    /\ clears = 0
    /\ firstOK = [k \in Kinds |-> NilSlice]

(* AnalysisController.Analyze after RunAll: applyGlobalFilters, *)
(* fetchCodeSnippets and the report *)

AnalyzeCategories == {"complexity", "duplication"}

\* a function-level issue of file a.go with a valid line range
IssueLong ==
    [Category |-> "complexity", Severity |-> "high", FilePath |-> "a.go",
     EntityType |-> "function", EntityName |-> NameProcess,
     StartLine |-> 5, EndLine |-> 9, CodeSnippet |-> <<>>]

\* a function-level issue with no start line
IssueNoStart ==
    [Category |-> "complexity", Severity |-> "low", FilePath |-> "a.go",
     EntityType |-> "function", EntityName |-> NameGetX,
     StartLine |-> 0, EndLine |-> 9, CodeSnippet |-> <<>>]

\* a file-level issue
IssueFile ==
    [Category |-> "complexity", Severity |-> "medium", FilePath |-> "b.go",
     EntityType |-> "file", EntityName |-> NameHelper,
     StartLine |-> 1, EndLine |-> 20, CodeSnippet |-> <<>>]

\* a function-level issue with a negative end line
IssueNoEnd ==
    [Category |-> "duplication", Severity |-> "medium", FilePath |-> "b.go",
     EntityType |-> "function", EntityName |-> NameHandle,
     StartLine |-> 3, EndLine |-> -1, CodeSnippet |-> <<>>]

\* a function-level issue of file b.go with a valid line range and a severity
\* outside the four levels
IssueDup ==
    [Category |-> "duplication", Severity |-> "info", FilePath |-> "b.go",
     EntityType |-> "function", EntityName |-> NameOther,
     StartLine |-> 10, EndLine |-> 12, CodeSnippet |-> <<>>]

AnalyzeIssues == {IssueLong, IssueNoStart, IssueFile, IssueNoEnd, IssueDup}

\* what RunAll can hand to Analyze
RunAllResults == SeqsUpTo(AnalyzeIssues, MaxReportLen)

OutputConfigs ==
    [MaxIssuesPerCategory : -1..MaxPerCategory,
     IncludeCodeSnippets : BOOLEAN,
     HotspotsTopN : 0..MaxTopN]

\* the Code of a snippet response
SnippetCode == <<99, 111, 100, 101>>    \* "code"

\* a category's slice that admits one issue more than the cap
AdmitsUpToCap(length, maxPerCategory) == length <= maxPerCategory

\* "if len(byCategory[issue.Category]) < maxPerCategory"
BelowCap(length, maxPerCategory) == length < maxPerCategory

RECURSIVE CapLoop(_, _, _, _)
\* the range loop of applyGlobalFilters from issue i on; byCategory holds the
\* empty slice for a key that is not in the map
CapLoop(issues, i, byCategory, maxPerCategory) ==
    IF i > Len(issues) THEN byCategory
    ELSE LET cat == issues[i].Category
         IN  IF BelowCap(Len(byCategory[cat]), maxPerCategory)
               THEN CapLoop(issues, i + 1,
                            [byCategory EXCEPT ![cat] = Append(@, issues[i])],
                            maxPerCategory)
               ELSE CapLoop(issues, i + 1, byCategory, maxPerCategory)

RECURSIVE ConcatCategories(_, _)
\* "for _, catIssues := range byCategory { filtered = append(filtered, catIssues...) }"
ConcatCategories(byCategory, order) ==
    IF order = <<>> THEN <<>>
    ELSE byCategory[Head(order)] \o ConcatCategories(byCategory, Tail(order))

\* the keys of byCategory after the loop: with a positive cap every category
\* that occurs has an entry
CategoryKeys(issues) == {issues[i].Category : i \in 1..Len(issues)}

\* AnalysisController.applyGlobalFilters: the results it can return, one per
\* iteration order of the byCategory map
applyGlobalFilters(issues, maxPerCategory) ==
    IF maxPerCategory <= 0 THEN {issues}
    ELSE LET byCategory == CapLoop(issues, 1, [c \in AnalyzeCategories |-> <<>>],
                                   maxPerCategory)
         IN  {ConcatCategories(byCategory, order) : order \in MapOrders(CategoryKeys(issues))}

\* a skip test that looks at the entity type only
SkipFileLevelOnly(issue) == issue.EntityType = "file"

\* "if issue.EntityType == "file" || issue.StartLine <= 0 || issue.EndLine <= 0"
SkipSnippet(issue) ==
    \/ issue.EntityType = "file"
    \/ issue.StartLine <= 0
    \/ issue.EndLine <= 0

\* the issues the summary would be computed from if it took RunAll's
SummaryOfReturned(returned, remaining) == returned

\* "Issues: issues, Summary: c.generateSummary(issues)"
SummaryArgument(returned, remaining) == remaining

\* AnalysisController.generateSummary for one iteration order of byFile
ReportSummary(issues, order, n) ==
    LET byFile == CountBy(issues, "FilePath")
    IN  [TotalIssues |-> Len(issues),
         ByCategory |-> CountBy(issues, "Category"),
         BySeverity |-> CountBy(issues, "Severity"),
         HotspotFiles |-> Hotspots(FileCounts(byFile, order), n),
         DebtScore |-> calculateDebtScore(issues)]

NoReport == [Issues |-> <<>>, Summary |-> NoSummary]

StartAnalyze ==
    /\ runAllIssues \in RunAllResults
    /\ outCfg \in OutputConfigs
    /\ anIssues = runAllIssues
    /\ anIdx = 1
    /\ snFetched = 0
    /\ snSkipped = 0
    /\ snFailed = 0
    /\ anReport = NoReport
    /\ anpc = "filters"

ParkedAnalyze ==
    /\ runAllIssues = <<>>
    /\ outCfg = [MaxIssuesPerCategory |-> 0, IncludeCodeSnippets |-> FALSE, HotspotsTopN |-> 0]
    /\ anIssues = <<>>
    /\ anIdx = 1
    /\ snFetched = 0
    /\ snSkipped = 0
    /\ snFailed = 0
    /\ anReport = NoReport
    /\ anpc = "filters"

\* Analyze: "issues = c.applyGlobalFilters(issues)" and the test of
\* IncludeCodeSnippets
AnalyzeFilters ==
    /\ anpc = "filters"
    /\ anIssues' \in applyGlobalFilters(anIssues, outCfg.MaxIssuesPerCategory)
    /\ anpc' = IF outCfg.IncludeCodeSnippets THEN "snippets" ELSE "report"
    /\ UNCHANGED <<runAllIssues, outCfg, anIdx, snFetched, snSkipped, snFailed, anReport>>
    /\ UNCHANGED notAnalyze

\* fetchCodeSnippets: an iteration that skips the issue
SnippetSkip ==
    /\ anpc = "snippets"
    /\ anIdx <= Len(anIssues)
    /\ SkipSnippet(anIssues[anIdx])
    /\ snSkipped' = snSkipped + 1
    /\ anIdx' = anIdx + 1
    /\ UNCHANGED <<runAllIssues, outCfg, anIssues, snFetched, snFailed, anReport, anpc>>
    /\ UNCHANGED notAnalyze

\* fetchCodeSnippets: an iteration whose GetSnippet call returns an error
SnippetFail ==
    /\ anpc = "snippets"
    /\ anIdx <= Len(anIssues)
    /\ ~SkipSnippet(anIssues[anIdx])
    /\ snFailed' = snFailed + 1
    /\ anIdx' = anIdx + 1
    /\ UNCHANGED <<runAllIssues, outCfg, anIssues, snFetched, snSkipped, anReport, anpc>>
    /\ UNCHANGED notAnalyze

\* fetchCodeSnippets: an iteration whose GetSnippet call returns a snippet
SnippetFetch ==
    /\ anpc = "snippets"
    /\ anIdx <= Len(anIssues)
    /\ ~SkipSnippet(anIssues[anIdx])
    /\ anIssues' = [anIssues EXCEPT ![anIdx].CodeSnippet = SnippetCode]
    /\ snFetched' = snFetched + 1
    /\ anIdx' = anIdx + 1
    /\ UNCHANGED <<runAllIssues, outCfg, snSkipped, snFailed, anReport, anpc>>
    /\ UNCHANGED notAnalyze

\* fetchCodeSnippets: the loop ends and the issues are returned
SnippetsReturn ==
    /\ anpc = "snippets"
    /\ anIdx > Len(anIssues)
    /\ anpc' = "report"
    /\ UNCHANGED <<runAllIssues, outCfg, anIssues, anIdx, snFetched, snSkipped, snFailed, anReport>>
    /\ UNCHANGED notAnalyze

\* Analyze: the report is built and returned
AnalyzeReport ==
    /\ anpc = "report"
    /\ LET arg == SummaryArgument(runAllIssues, anIssues)
       IN  \E order \in MapOrders(DOMAIN CountBy(arg, "FilePath")) :
             anReport' = [Issues |-> anIssues,
                          Summary |-> ReportSummary(arg, order, outCfg.HotspotsTopN)]
    /\ anpc' = "done"
    /\ UNCHANGED <<runAllIssues, outCfg, anIssues, anIdx, snFetched, snSkipped, snFailed>>
    /\ UNCHANGED notAnalyze

NextAnalyze ==
    \/ AnalyzeFilters
    \/ SnippetSkip
    \/ SnippetFail
    \/ SnippetFetch
    \/ SnippetsReturn
    \/ AnalyzeReport

-----------------------------------------------------------------------------
InitRunner == StartRunner /\ ParkedProvider /\ ParkedIntimacy /\ ParkedDup /\ ParkedFilter /\ ParkedSummary /\ ParkedDetect /\ ParkedClient /\ ParkedSim /\ ParkedAnalyze

SpecRunner == InitRunner /\ [][NextRunner]_vars

\* the goroutines are scheduled and every Detect call that was started
\* returns: a step of RunAll or of a worker that stays possible is taken
SpecRunnerLive == SpecRunner /\ WF_vars(NextRunner)

InitProvider == StartProvider /\ ParkedRunner /\ ParkedIntimacy /\ ParkedDup /\ ParkedFilter /\ ParkedSummary /\ ParkedDetect /\ ParkedClient /\ ParkedSim /\ ParkedAnalyze

InitIntimacy == StartIntimacy /\ ParkedProvider /\ ParkedRunner /\ ParkedDup /\ ParkedFilter /\ ParkedSummary /\ ParkedDetect /\ ParkedClient /\ ParkedSim /\ ParkedAnalyze

SpecIntimacy == InitIntimacy /\ [][NextIntimacy]_vars

SpecProvider == InitProvider /\ [][NextProvider]_vars

InitDup ==
    /\ StartDup
    /\ exclusions \in DupExclusionConfigs
    /\ ParkedPairs
    /\ ParkedProvider
    /\ ParkedRunner
    /\ ParkedFilter
    /\ ParkedSummary
    /\ ParkedDetect
    /\ ParkedClient
    /\ ParkedSim
    /\ ParkedAnalyze

SpecDup == InitDup /\ [][NextDup]_vars

InitFilter ==
    /\ StartFilter
    /\ minSeverity \in FilterMinSeverities
    /\ ParkedSearches
    /\ ParkedProvider
    /\ ParkedRunner
    /\ ParkedIntimacy
    /\ ParkedSummary
    /\ ParkedDetect
    /\ ParkedClient
    /\ ParkedSim
    /\ ParkedAnalyze

SpecFilter == InitFilter /\ [][NextFilter]_vars

InitSummary ==
    /\ StartSummary
    /\ ParkedProvider
    /\ ParkedRunner
    /\ ParkedIntimacy
    /\ ParkedDup
    /\ ParkedFilter
    /\ ParkedDetect
    /\ ParkedClient
    /\ ParkedSim
    /\ ParkedAnalyze

SpecSummary == InitSummary /\ [][NextSummary]_vars

InitCandidates ==
    /\ StartCandidates
    /\ exclusions \in DupExclusionConfigs
    /\ ParkedPairs
    /\ ParkedProvider
    /\ ParkedRunner
    /\ ParkedFilter
    /\ ParkedSummary
    /\ ParkedDetect
    /\ ParkedClient
    /\ ParkedSim
    /\ ParkedAnalyze

SpecCandidates == InitCandidates /\ [][NextCandidates]_vars

InitSim ==
    /\ StartSim
    /\ ParkedProvider
    /\ ParkedRunner
    /\ ParkedIntimacy
    /\ ParkedDup
    /\ ParkedFilter
    /\ ParkedSummary
    /\ ParkedDetect
    /\ ParkedClient
    /\ ParkedAnalyze

SpecSim == InitSim /\ [][NextSim]_vars

InitAnalyze ==
    /\ StartAnalyze
    /\ ParkedProvider
    /\ ParkedRunner
    /\ ParkedIntimacy
    /\ ParkedDup
    /\ ParkedFilter
    /\ ParkedSummary
    /\ ParkedDetect
    /\ ParkedClient
    /\ ParkedSim

SpecAnalyze == InitAnalyze /\ [][NextAnalyze]_vars

InitClient ==
    /\ StartClient
    /\ ParkedProvider
    /\ ParkedRunner
    /\ ParkedIntimacy
    /\ ParkedDup
    /\ ParkedFilter
    /\ ParkedSummary
    /\ ParkedDetect
    /\ ParkedSim
    /\ ParkedAnalyze

SpecClient == InitClient /\ [][NextClient]_vars

\* every doPost returns (the http.Client has a Timeout) and every
\* time.After fires, so post always takes its next step
SpecClientLive == SpecClient /\ WF_vars(NextClient)

InitDetect ==
    /\ StartDetect
    /\ exclusions \in DetectExclusionConfigs
    /\ minSeverity \in MinSeverityValues
    /\ ParkedPairs
    /\ ParkedSearches
    /\ ParkedProvider
    /\ ParkedRunner
    /\ ParkedFilter
    /\ ParkedSummary
    /\ ParkedClient
    /\ ParkedSim
    /\ ParkedAnalyze

SpecDetect == InitDetect /\ [][NextDetect]_vars

\* one Detect call of one of the four detectors: while the variables of the
\* complexity, size and coupling detectors are idle the duplication detector runs
NextDetectAll ==
    \/ NextDetect
    \/ (detName = "none" /\ NextDup)

\* the duplication detector with one search worker: its searches run one at a
\* time, in either order
InitDetectAll == InitDetect \/ (InitDup /\ searchWorkers = 1)

SpecDetectAll == InitDetectAll /\ [][NextDetectAll]_vars

-----------------------------------------------------------------------------
(* Claims about metrics.Provider, checked under SpecProvider *)

Finished(c, k) == ppc[c] = "done" /\ pkind[c] = k /\ ~perr[c]

\* C1: with caching enabled, no ClearCache and no failed fetch, the callers of
\* one accessor cause at most one external query however they interleave, and
\* every caller that has returned got the populated cached slice, after
\* exactly one query.
C1_OneQueryForConcurrentFirstCallers ==
    \A k \in Kinds :
        (cfgEnabled /\ clears = 0 /\ failFetches[k] = 0) =>
            /\ queries[k] <= 1
            /\ \A c \in Callers :
                  Finished(c, k) =>
                      /\ IsCached(k)
                      /\ pret[c] = cache[k]
                      /\ queries[k] = 1

\* C1 witness: caller c1 has fetched and returned while a second caller of the
\* same accessor, which missed on its optimistic read, holds the write lock
\* in front of its double check.
C1_Witness ==
    \E c1, c2 \in Callers :
        /\ c1 # c2 /\ cfgEnabled /\ clears = 0
        /\ pkind[c1] = "classPairMetrics" /\ pkind[c2] = "classPairMetrics"
        /\ Finished(c1, "classPairMetrics") /\ ppc[c2] = "locked"
        /\ queries["classPairMetrics"] = 1 /\ failFetches["classPairMetrics"] = 0

\* C4 as claimed: a failed fetch returns the error with a nil slice and
\* changes none of the four cached slices; the call that next reaches the
\* double check of that accessor issues a new query; and when that query
\* succeeds its result is returned and cached.
C4_FailedFetchThenRetryCaches ==
    [][\A c \in Callers :
         /\ (ppc[c] = "fetching" /\ ppc'[c] = "done" /\ perr'[c]) =>
                (pret'[c].isNil /\ cache' = cache /\ cache'[pkind[c]].isNil)
         /\ (ppc[c] = "locked" /\ ppc'[c] # "locked" /\ pkind[c] \in Kinds
                /\ failFetches[pkind[c]] > 0 /\ cache[pkind[c]].isNil) =>
                (ppc'[c] = "fetching" /\ queries'[pkind[c]] = queries[pkind[c]] + 1)
         /\ (ppc[c] = "fetching" /\ ppc'[c] = "done" /\ ~perr'[c]
                /\ failFetches[pkind[c]] > 0) =>
                (~pret'[c].isNil /\ cache'[pkind[c]] = pret'[c])
      ]_vars

\* C4 amended: as above, but the result of the successful retry is cached
\* only when caching is enabled; with caching disabled it is returned and
\* the cached slices stay nil.
C4_FailedFetchLeavesCacheRetryCachesIfEnabled ==
    [][\A c \in Callers :
         /\ (ppc[c] = "fetching" /\ ppc'[c] = "done" /\ perr'[c]) =>
                (pret'[c].isNil /\ cache' = cache /\ cache'[pkind[c]].isNil)
         /\ (ppc[c] = "locked" /\ ppc'[c] # "locked" /\ pkind[c] \in Kinds
                /\ failFetches[pkind[c]] > 0 /\ cache[pkind[c]].isNil) =>
                (ppc'[c] = "fetching" /\ queries'[pkind[c]] = queries[pkind[c]] + 1)
         /\ (ppc[c] = "fetching" /\ ppc'[c] = "done" /\ ~perr'[c]
                /\ failFetches[pkind[c]] > 0) =>
                /\ ~pret'[c].isNil
                /\ cfgEnabled => cache'[pkind[c]] = pret'[c]
                /\ ~cfgEnabled => cache' = cache
      ]_vars

\* C4 witness: after a failed class-metrics fetch a retry succeeded, and its
\* result is both returned and cached.
C4_Witness ==
    \E c \in Callers :
        /\ failFetches["classMetrics"] = 1 /\ queries["classMetrics"] = 2
        /\ Finished(c, "classMetrics")
        /\ IsCached("classMetrics") /\ pret[c] = cache["classMetrics"]

\* C10: with caching enabled and no ClearCache, every successful
\* GetAllFunctionMetrics call returns the same slice as the first successful
\* one, and the successful calls together rest on exactly one successful
\* external fetch (queries issued minus queries failed).
C10_SequentialCallsOneFetch ==
    (cfgEnabled /\ clears = 0) =>
        \A c \in Callers :
            Finished(c, "functionMetrics") =>
                /\ pret[c] = firstOK["functionMetrics"]
                /\ queries["functionMetrics"] - failFetches["functionMetrics"] = 1

\* C10 witness: one caller made two calls, both to GetAllFunctionMetrics (any
\* other accessor would have queried), one after the other, and one external
\* query was issued in all.
C10_Witness ==
    \E c \in Callers :
        /\ cfgEnabled /\ clears = 0 /\ pcalls = 2
        /\ \A o \in Callers \ {c} : ppc[o] = "idle"
        /\ Finished(c, "functionMetrics")
        /\ queries = [k \in Kinds |-> IF k = "functionMetrics" THEN 1 ELSE 0]
        /\ failFetches = [k \in Kinds |-> 0]

\* accessor calls that have not yet reached the point of the external query
BeforeQuery ==
    {c \in Callers : pkind[c] \in Kinds
                     /\ ppc[c] \in {"rlocked", "unlocked", "lockwait", "locked"}}

RECURSIVE SumOver(_, _)
SumOver(f, S) ==
    IF S = {} THEN 0
    ELSE LET x == CHOOSE y \in S : TRUE IN f[x] + SumOver(f, S \ {x})

\* C21: with caching disabled the cached collections are empty in every
\* reachable state, and the external queries issued so far are exactly one
\* per accessor call that got past the two cache checks (calls started, minus
\* ClearCache calls, minus accessor calls still before the query), however the
\* calls interleave.
C21_DisabledCacheOneQueryPerCall ==
    ~cfgEnabled =>
        /\ \A k \in Kinds : cache[k].isNil
        /\ SumOver(queries, Kinds) = pcalls - clears - Cardinality(BeforeQuery)

\* C21 witness: caching is disabled, two different callers have both returned
\* from GetAllFunctionMetrics without error, and two queries were issued for it.
C21_Witness ==
    \E c1, c2 \in Callers :
        /\ c1 # c2 /\ ~cfgEnabled
        /\ Finished(c1, "functionMetrics") /\ Finished(c2, "functionMetrics")
        /\ ~pret[c1].isNil /\ ~pret[c2].isNil
        /\ queries["functionMetrics"] = 2

\* C22: the ClearCache step sets all four cached collections to nil and
\* changes nothing else of the provider (it only releases the lock), no fetch
\* is in flight while it runs, and an accessor returns without a query only
\* when its collection is populated: so the first call to check a collection
\* after ClearCache issues a new external query, whatever runs concurrently.
C22_ClearCacheEmptiesAllThenRequery ==
    [][\A c \in Callers :
          /\ (pkind[c] = "clear" /\ ppc[c] = "locked" /\ ppc'[c] = "done") =>
                /\ \A k \in Kinds : cache'[k].isNil
                /\ \A o \in Callers : ppc[o] # "fetching"
                /\ UNCHANGED <<cfgEnabled, readers, pkind, pret, perr, pcalls,
                               queries, failFetches, clears, firstOK>>
          /\ (pkind[c] \in Kinds /\ ppc[c] \in {"rlocked", "locked"}
                /\ ppc'[c] \notin {"rlocked", "locked"}) =>
                IF cache[pkind[c]].isNil
                  THEN /\ ppc'[c] \in {"unlocked", "fetching"}
                       /\ ppc'[c] = "fetching" =>
                             queries'[pkind[c]] = queries[pkind[c]] + 1
                  ELSE /\ ppc'[c] = "done"
                       /\ pret'[c] = cache[pkind[c]]
                       /\ UNCHANGED queries]_vars

\* C22 witness: caching is enabled and no fetch failed, yet after a ClearCache
\* a caller returned from GetAllFunctionMetrics and two queries were issued for
\* it: the collection was populated, cleared and fetched again.
C22_Witness ==
    \E c \in Callers :
        /\ cfgEnabled /\ clears = 1
        /\ failFetches = [k \in Kinds |-> 0]
        /\ Finished(c, "functionMetrics")
        /\ queries["functionMetrics"] = 2
        /\ ~cache["functionMetrics"].isNil

Fetching == {c \in Callers : ppc[c] = "fetching"}

\* C35: at most one caller has an external query in flight, over all four
\* accessors; that caller holds p.mu exclusively (no reader is inside), and
\* while the query is in flight no other caller gets the lock (read or
\* write) or returns, whichever collection it asks for and whether or not
\* that one is cached: it can at most arrive at ClearCache's p.mu.Lock().
C35_OneQueryInFlightUnderExclusiveLock ==
    /\ [](/\ Cardinality(Fetching) <= 1
          /\ \A c \in Fetching :
                /\ writer = {c} /\ readers = {}
                /\ \A o \in Callers \ {c} : ppc[o] \in {"idle", "done", "unlocked"})
    /\ [][\A c \in Fetching : \A o \in Callers \ {c} :
              /\ ppc'[o] \in {ppc[o], "unlocked"}
              /\ pret'[o] = pret[o] /\ perr'[o] = perr[o]]_vars

\* C35 witness: one caller's query for the class metrics is in flight while
\* the function metrics are cached and another caller, back from an earlier
\* call, cannot start a call.
C35_Witness ==
    \E c, o \in Callers :
        /\ c # o /\ cfgEnabled
        /\ ppc[c] = "fetching" /\ pkind[c] = "classMetrics"
        /\ ~cache["functionMetrics"].isNil
        /\ ppc[o] = "done"
        /\ pcalls < MaxCalls
        /\ \A k \in Kinds : ~ENABLED GetMetrics(o, k)

-----------------------------------------------------------------------------
(* Claims about detector.Runner, checked under SpecRunner *)

InsideDetect == {d \in DetectorNames : wpc[d] = "detecting"}

FailedDetectors == {d \in DetectorNames : detectCalls[d] > 0 /\ detectResult[d].err # ""}

CountIn(seq, x) == Cardinality({i \in 1..Len(seq) : seq[i] = x})

\* how often issue x must appear in the merged result: as often as its own
\* detector returned it, if that detector was run and succeeded
ExpectedCount(x) ==
    IF detectCalls[x.detector] = 1 /\ detectResult[x.detector].err = ""
      THEN CountIn(detectResult[x.detector].issues, x)
      ELSE 0

IsUnionOfSucceeded(rows) ==
    \A x \in [detector : DetectorNames, id : IssueIds] :
        CountIn(rows, x) = ExpectedCount(x)

\* C2: with MaxParallelDetectors = k >= 1, at most k detectors are inside
\* their Detect call in every reachable state.
C2_AtMostKInsideDetect ==
    maxParallel >= 1 => Cardinality(InsideDetect) <= maxParallel

\* C2 witness: the limit of 2 is reached while a third goroutine waits on sem.
C2_Witness ==
    /\ maxParallel = 2
    /\ Cardinality(InsideDetect) = 2
    /\ \E d \in DetectorNames : wpc[d] = "start"

\* C3: no Detect is ever called twice and a disabled detector's never; and in
\* fail-fast mode, once RunAll is past wg.Wait (and when it has returned),
\* every enabled detector's Detect has been called exactly once and has
\* returned, its goroutine finished, whatever the others' outcomes.
C3_FailFastAwaitsEveryDetector ==
    /\ \A d \in DetectorNames :
          /\ detectCalls[d] <= 1
          /\ ~rEnabled[d] => detectCalls[d] = 0
    /\ (failFast /\ mainpc \in {"closed", "returned"}) =>
          \A d \in DetectorNames :
              rEnabled[d] => (detectCalls[d] = 1 /\ wpc[d] = "done")

\* C3 witness: a fail-fast run returned an error although a sibling detector
\* ran to completion and produced issues.
C3_Witness ==
    /\ failFast /\ mainpc = "returned" /\ retErr # NoErr
    /\ \E d \in DetectorNames :
          /\ wpc[d] = "done" /\ detectResult[d].err = ""
          /\ Len(detectResult[d].issues) > 0
    /\ Cardinality(FailedDetectors) = 1

\* C5: without fail-fast RunAll returns a nil error, every enabled detector
\* was run once, and the returned issues are, as a multiset, the union of
\* the issues of the detectors whose Detect succeeded.
C5_BestEffortUnion ==
    (~failFast /\ mainpc = "returned") =>
        /\ retErr = NoErr
        /\ \A d \in DetectorNames : rEnabled[d] => detectCalls[d] = 1
        /\ IsUnionOfSucceeded(retIssues.rows)

\* C5 witness: one detector failed, two succeeded with issues, and RunAll
\* returned both detectors' issues.
C5_Witness ==
    /\ ~failFast /\ mainpc = "returned"
    /\ Cardinality(FailedDetectors) = 1
    /\ Len(retIssues.rows) = 2
    /\ \E d1, d2 \in DetectorNames :
          /\ d1 # d2
          /\ Len(detectResult[d1].issues) = 1
          /\ Len(detectResult[d2].issues) = 1

\* C6: in fail-fast mode, if some detector failed RunAll returns nil issues
\* and the first error sent to errChan, which names a detector that failed;
\* if none failed it returns the merged issues and a nil error.
C6_FailFastReturnsFirstError ==
    (failFast /\ mainpc = "returned") =>
        IF FailedDetectors # {}
          THEN /\ retIssues = NilSlice
               /\ Len(errLog) > 0
               /\ retErr = errLog[1]
               /\ retErr.detector \in FailedDetectors
               /\ retErr.cause = detectResult[retErr.detector].err
          ELSE /\ retErr = NoErr
               /\ IsUnionOfSucceeded(retIssues.rows)

\* C6 witness: two detectors failed, the later one in the list recorded its
\* error first, and that is the error RunAll returned.
C6_Witness ==
    /\ failFast /\ mainpc = "returned"
    /\ FailedDetectors = {"complexity", "coupling"}
    /\ Len(errLog) = 2
    /\ errLog[1].detector = "coupling"
    /\ retErr = errLog[1]

\* the launch loop has passed detector d
Launched(d) == \E i \in 1..(launchIdx - 1) : detectors[i] = d

\* goroutines between "sem <- struct{}{}" and the deferred "<-sem"
HoldingPermit ==
    {d \in DetectorNames :
        wpc[d] \in {"detecting", "failed", "succeeded", "merging", "release"}}

\* C23: once the launch loop has passed a detector, a goroutine exists for it
\* iff it is enabled, and the goroutines still counted by the WaitGroup plus
\* the finished ones are exactly the enabled detectors passed so far; a
\* disabled detector has no goroutine (so holds no permit), its Detect is
\* never called, and no merged or returned issue and no recorded or returned
\* error comes from it.
C23_OneUnitPerEnabledDetector ==
    /\ \A d \in DetectorNames :
          /\ wpc[d] # "none" => (Launched(d) /\ rEnabled[d])
          /\ (Launched(d) /\ rEnabled[d]) => wpc[d] # "none"
          /\ detectCalls[d] <= 1
    /\ wg + Cardinality({d \in DetectorNames : wpc[d] = "done"})
          = Cardinality({d \in DetectorNames : Launched(d) /\ rEnabled[d]})
    /\ \A d \in DetectorNames :
          ~rEnabled[d] =>
              /\ wpc[d] = "none" /\ d \notin HoldingPermit
              /\ detectCalls[d] = 0 /\ detectResult[d] = NotCalled
              /\ \A i \in 1..Len(allIssues.rows) : allIssues.rows[i].detector # d
              /\ \A i \in 1..Len(retIssues.rows) : retIssues.rows[i].detector # d
              /\ \A i \in 1..Len(errLog) : errLog[i].detector # d
              /\ retErr.detector # d

\* C23 witness: RunAll returned issues with two detectors enabled and two
\* disabled, one of the disabled ones ahead of the enabled ones in the list.
C23_Witness ==
    /\ mainpc = "returned"
    /\ rEnabled = [d \in DetectorNames |-> d \in {"size_structure", "duplication"}]
    /\ Len(retIssues.rows) = 2
    /\ wpc["size_structure"] = "done" /\ wpc["duplication"] = "done"

\* C25: the permits held are exactly those of the goroutines between their
\* acquire and their deferred release, so each goroutine that acquired one
\* gives back exactly one on every path (success, failure, fail-fast
\* failure); the number held never exceeds MaxParallelDetectors, and it is
\* zero once wg.Wait() has returned and when RunAll returns.
C25_PermitsReleasedExactlyOnce ==
    /\ sem = Cardinality(HoldingPermit)
    /\ sem <= maxParallel
    /\ \A d \in DetectorNames :
          wpc[d] \in {"wgdone", "done"} => (detectCalls[d] = 1 /\ d \notin HoldingPermit)
    /\ mainpc \in {"closed", "returned"} => sem = 0

\* C25 witness: with one permit and fail-fast, RunAll returned after one
\* detector failed and another succeeded, and no permit is held.
C25_Witness ==
    /\ failFast /\ maxParallel = 1 /\ mainpc = "returned"
    /\ sem = 0
    /\ \E d1, d2 \in DetectorNames :
          /\ wpc[d1] = "done" /\ detectResult[d1].err # ""
          /\ wpc[d2] = "done" /\ detectResult[d2].err = "" /\ detectCalls[d2] = 1

-----------------------------------------------------------------------------
(* Claims about detectInappropriateIntimacy, checked under SpecIntimacy *)

NamePair(name1, name2) == {name1, name2}

\* a record that is not skipped by the exclusions and exceeds the threshold
\* in both directions
Reportable(r) ==
    /\ r.Class1File \notin exclusions.files
    /\ r.Class2File \notin exclusions.files
    /\ r.Class1Name \notin exclusions.classes
    /\ r.Class2Name \notin exclusions.classes
    /\ r.Calls1To2 > IntimacyCallThreshold
    /\ r.Calls2To1 > IntimacyCallThreshold

\* issue x was made from record r and carries its values
MadeFrom(x, r) ==
    /\ x.Subcategory = "inappropriate_intimacy"
    /\ x.FilePath = r.Class1File
    /\ x.Metrics.class1 = r.Class1Name
    /\ x.Metrics.class2 = r.Class2Name
    /\ x.Metrics.calls_1_to_2 = r.Calls1To2
    /\ x.Metrics.calls_2_to_1 = r.Calls2To1

\* C8: for every sequence of class-pair records the returned issues contain
\* at most one issue per unordered pair of class names; each issue is made
\* from the first reportable record of its pair and keeps that record's
\* values; every pair with a reportable record is reported (once), so a later
\* (B,A) after a reported (A,B) is suppressed.
C8_OneIssuePerUnorderedPair ==
    (ipc = "done" /\ ~iErr) =>
        /\ \A i, j \in 1..Len(iIssues) :
              i # j => NamePair(iIssues[i].Metrics.class1, iIssues[i].Metrics.class2)
                       # NamePair(iIssues[j].Metrics.class1, iIssues[j].Metrics.class2)
        /\ \A i \in 1..Len(iIssues) :
              \E n \in 1..Len(classPairs) :
                  /\ Reportable(classPairs[n])
                  /\ MadeFrom(iIssues[i], classPairs[n])
                  /\ \A m \in 1..(n - 1) :
                        Reportable(classPairs[m]) =>
                            NamePair(classPairs[m].Class1Name, classPairs[m].Class2Name)
                            # NamePair(classPairs[n].Class1Name, classPairs[n].Class2Name)
        /\ \A n \in 1..Len(classPairs) :
              Reportable(classPairs[n]) =>
                  \E i \in 1..Len(iIssues) :
                      NamePair(iIssues[i].Metrics.class1, iIssues[i].Metrics.class2)
                      = NamePair(classPairs[n].Class1Name, classPairs[n].Class2Name)

\* C8 witness: records (A,B) and then (B,A), both above the threshold with
\* different call counts; one issue, with the values of the (A,B) record.
C8_Witness ==
    /\ ipc = "done" /\ ~iErr
    /\ Len(classPairs) = 2
    /\ classPairs[1].Class1Name = NameA /\ classPairs[1].Class2Name = NameB
    /\ classPairs[2].Class1Name = NameB /\ classPairs[2].Class2Name = NameA
    /\ Reportable(classPairs[1]) /\ Reportable(classPairs[2])
    /\ classPairs[1].Calls2To1 # classPairs[2].Calls2To1
    /\ Len(iIssues) = 1
    /\ MadeFrom(iIssues[1], classPairs[1])

\* record n is reportable and no earlier reportable record has its pair of
\* class names
FirstReportable(n) ==
    /\ Reportable(classPairs[n])
    /\ \A m \in 1..(n - 1) :
          Reportable(classPairs[m]) =>
              NamePair(classPairs[m].Class1Name, classPairs[m].Class2Name)
              # NamePair(classPairs[n].Class1Name, classPairs[n].Class2Name)

-----------------------------------------------------------------------------
(* Claims about DuplicationDetector.Detect, checked under SpecDup *)

\* the place of a function, as a search result names it
PlaceOf(fn) ==
    [FilePath |-> fn.FilePath, StartLine |-> fn.StartLine, EndLine |-> fn.EndLine]

\* issue x has fn as its source and the function at other's place as duplicate
ReportsPair(x, fn, other) ==
    /\ x.FilePath = fn.FilePath
    /\ x.StartLine = fn.StartLine
    /\ x.Metrics.duplicate_file = other.FilePath
    /\ x.Metrics.duplicate_line = other.StartLine

\* the returned issues about the pair {a, b}, by position
IssuesForPair(a, b) ==
    {k \in 1..Len(dRet) : ReportsPair(dRet[k], a, b) \/ ReportsPair(dRet[k], b, a)}

\* candidates i and j lie in different files and each one's search response
\* held the other as a function-kind result at or above the threshold
MutualMatch(i, j) ==
    /\ i # j
    /\ i <= Len(dupCandidates)
    /\ j <= Len(dupCandidates)
    /\ dupCandidates[i].FilePath # dupCandidates[j].FilePath
    /\ PlaceOf(dupCandidates[j]) \in searched[i].fn
    /\ PlaceOf(dupCandidates[i]) \in searched[j].fn

\* C7: when two candidates in different files each appear as a function-kind
\* match of the other above the threshold, one Detect run returns exactly one
\* issue for the pair (the minimum severity being low, so that the severity
\* filter removes nothing), in whatever order the searches complete.
C7_MutualMatchReportedOnce ==
    (dpc = "returned" /\ ~dErr /\ minSeverity = "low") =>
        \A i, j \in Slots :
            MutualMatch(i, j) =>
                Cardinality(IssuesForPair(dupCandidates[i], dupCandidates[j])) = 1

\* issue x refers to a match in the file of its source whose line range
\* overlaps the source's own range
SelfOverlapping(x) ==
    /\ x.Metrics.duplicate_file = x.FilePath
    /\ x.StartLine <= x.Metrics.duplicate_end
    /\ x.Metrics.duplicate_line <= x.EndLine

\* C9: no issue of the duplication detector, collected or returned, refers to
\* a match in the same file as its source candidate whose line range overlaps
\* the candidate's range (start1 <= end2 and start2 <= end1).
C9_NoSelfOverlappingMatchReported ==
    /\ \A k \in 1..Len(dupIssues) : ~SelfOverlapping(dupIssues[k])
    /\ \A k \in 1..Len(dRet) : ~SelfOverlapping(dRet[k])

\* Detect returned issues, and the search response of some candidate held a
\* function-kind result above the threshold in the candidate's own file
\* overlapping the candidate's range
C9_Witness ==
    /\ dpc = "returned"
    /\ Len(dRet) > 0
    /\ \E i \in Slots :
         /\ i <= Len(dupCandidates)
         /\ \E place \in searched[i].fn :
              /\ place.FilePath = dupCandidates[i].FilePath
              /\ dupCandidates[i].StartLine <= place.EndLine
              /\ place.StartLine <= dupCandidates[i].EndLine

-----------------------------------------------------------------------------
(* Claims about BaseDetector.FilterBySeverity, checked under SpecFilter *)

SeverityLevels == {"low", "medium", "high", "critical"}

\* low < medium < high < critical
SeverityRank(s) ==
    CASE s = "low" -> 1 [] s = "medium" -> 2 [] s = "high" -> 3 [] s = "critical" -> 4

AtLeast(s, minSev) ==
    s \in SeverityLevels /\ SeverityRank(s) >= SeverityRank(minSev)

KeptBy(x) == AtLeast(x.Severity, minSeverity)

\* C12: for every input sequence and every minimum M of the four levels,
\* FilterBySeverity returns exactly the issues with severity >= M, each once
\* and in their original relative order.
C12_FilterKeepsExactlyAtLeastMin ==
    (fpc = "done" /\ minSeverity \in SeverityLevels) =>
        fOut = SelectSeq(fIn, KeptBy)

\* a call with minimum high on an input holding issues on both sides of it
C12_Witness ==
    /\ fpc = "done"
    /\ minSeverity = "high"
    /\ Len(fIn) = 3
    /\ Len(fOut) = 2
    /\ \E i \in 1..Len(fIn) : fIn[i].Severity = "medium"

IsCanonical(x) == x.Severity \in SeverityLevels

\* C40: with a minimum that is none of the four levels (empty, in another
\* case, unknown) FilterBySeverity returns every issue with a canonical
\* severity, in order, which is what the minimum "low" gives; and whatever
\* the minimum, an issue whose severity is not canonical is never returned.
C40_UnknownMinimumActsAsLow ==
    fpc = "done" =>
        /\ minSeverity \notin SeverityLevels => fOut = SelectSeq(fIn, IsCanonical)
        /\ minSeverity = "low" => fOut = SelectSeq(fIn, IsCanonical)
        /\ \A i \in 1..Len(fOut) : IsCanonical(fOut[i])

\* C40 witness: the minimum is "High" (wrong case); of a low, an "info" and a
\* critical issue the low and the critical one are returned.
C40_Witness ==
    /\ fpc = "done"
    /\ minSeverity = "High"
    /\ fIn = <<[Severity |-> "low"], [Severity |-> "info"], [Severity |-> "critical"]>>
    /\ fOut = <<[Severity |-> "low"], [Severity |-> "critical"]>>

-----------------------------------------------------------------------------
(* Claims about the searches of DuplicationDetector.Detect, checked under SpecDup *)

\* candidate i's findSimilarFunctions call returned an error
SearchFailed(i) == searched[i].outcome \in {"snippet error", "search error"}

\* issue x has candidate i as its source
SourceIs(x, i) ==
    /\ x.FilePath = dupCandidates[i].FilePath
    /\ x.StartLine = dupCandidates[i].StartLine

\* the collected issues hold the pair of candidate i and its match m, found
\* from either side
PairCollected(i, m) ==
    \E k \in 1..Len(dupIssues) :
        \/ ReportsPair(dupIssues[k], dupCandidates[i], m.Chunk)
        \/ ReportsPair(dupIssues[k], m.Chunk, dupCandidates[i])

\* C16: once the function metrics were fetched, failures of the snippet fetch
\* or of the similarity search for any subset of the candidates never make
\* Detect fail: it returns a nil error, no collected or returned issue has a
\* failing candidate as its source, and every match of a succeeding candidate
\* is still collected and, at or above the minimum severity, returned.
C16_SearchFailuresNeverFailDetect ==
    (dpc = "returned" /\ ~functionsErr) =>
        /\ ~dErr
        /\ \A i \in 1..Len(dupCandidates) :
             SearchFailed(i) =>
                 /\ \A k \in 1..Len(dupIssues) : ~SourceIs(dupIssues[k], i)
                 /\ \A k \in 1..Len(dRet) : ~SourceIs(dRet[k], i)
        /\ \A i \in 1..Len(dupCandidates) :
             ~SearchFailed(i) =>
                 \A n \in 1..Len(dupMatches[i]) : PairCollected(i, dupMatches[i][n])
        /\ \A k \in 1..Len(dupIssues) :
             AtLeast(dupIssues[k].Severity, minSeverity) =>
                 \E n \in 1..Len(dRet) : dRet[n] = dupIssues[k]

\* Detect returned an issue of one candidate although the search of the other
\* candidate failed
C16_Witness ==
    /\ dpc = "returned"
    /\ ~dErr
    /\ Len(dupCandidates) = 2
    /\ searched[1].outcome = "search error"
    /\ searched[2].outcome = "results"
    /\ Len(dRet) = 1
    /\ SourceIs(dRet[1], 2)

\* the goroutines inside findSimilarFunctions
InSearch == {i \in Slots : gpc[i] \in {"snippet", "search"}}

\* the goroutines between "sem <- struct{}{}" and the deferred "<-sem"
HoldingSearchToken ==
    {i \in Slots : gpc[i] \in {"snippet", "search", "lock", "report", "release"}}

\* C17: with SimilaritySearchWorkers = w >= 1, at most w findSimilarFunctions
\* calls are in progress at any moment of one Detect run; the tokens counted
\* are those of the channel Detect makes for itself, one per goroutine between
\* its acquire and its release.
C17_AtMostWSearchesInProgress ==
    searchWorkers >= 1 =>
        /\ Cardinality(InSearch) <= searchWorkers
        /\ dsem = Cardinality(HoldingSearchToken)
        /\ dsem <= searchWorkers

\* with one worker, one candidate's search is in progress while the other
\* candidate's goroutine waits for the token
C17_Witness ==
    /\ searchWorkers = 1
    /\ gpc[1] = "start"
    /\ gpc[2] = "search"

-----------------------------------------------------------------------------
(* Claims about the report summary, checked under SpecSummary *)

\* the number of issues passed in that have severity s
SeverityCount(s) ==
    Cardinality({i \in 1..Len(sIssues) : sIssues[i].Severity = s})

\* 1*low + 3*medium + 7*high + 15*critical
WeightedSum ==
    SeverityCount("low") + 3 * SeverityCount("medium")
        + 7 * SeverityCount("high") + 15 * SeverityCount("critical")

\* C13: the debt score is min(100, (1*low + 3*medium + 7*high + 15*critical)/10):
\* 0 for the empty collection, 1.5 for exactly one critical issue, and never
\* below 0 or above 100 (DebtScore is held in tenths: 1000 is 100).
C13_DebtScoreIsClampedWeightedSum ==
    spc = "done" =>
        /\ summary.DebtScore = (IF WeightedSum > 1000 THEN 1000 ELSE WeightedSum)
        /\ sIssues = <<>> => summary.DebtScore = 0
        /\ (Len(sIssues) = 1 /\ sIssues[1].Severity = "critical") => summary.DebtScore = 15
        /\ summary.DebtScore >= 0
        /\ summary.DebtScore <= 1000

\* a summary of a collection whose weighted sum is above 1000
C13_Witness ==
    /\ spc = "done"
    /\ WeightedSum > 1000
    /\ summary.DebtScore = 1000

\* the file paths of the issues passed in
IssuePaths == {sIssues[i].FilePath : i \in 1..Len(sIssues)}

\* the number of issues passed in that have file path p
PathCount(p) == Cardinality({i \in 1..Len(sIssues) : sIssues[i].FilePath = p})

\* C14: the hotspot list has exactly min(N, number of distinct file paths)
\* entries, each for a different file path and with the number of issues of
\* that path as its count, the counts are in non-increasing order, and no
\* file left out has a larger count than a file included.
C14_HotspotsAreTopNByCount ==
    spc = "done" =>
        LET h == summary.HotspotFiles
            n == Cardinality(IssuePaths)
        IN  /\ Len(h) = (IF topN < n THEN topN ELSE n)
            /\ \A i \in 1..Len(h) :
                 /\ h[i].FilePath \in IssuePaths
                 /\ h[i].IssueCount = PathCount(h[i].FilePath)
            /\ \A i, j \in 1..Len(h) :
                 /\ i # j => h[i].FilePath # h[j].FilePath
                 /\ i < j => h[i].IssueCount >= h[j].IssueCount
            /\ \A p \in IssuePaths \ {h[i].FilePath : i \in 1..Len(h)} :
                 \A i \in 1..Len(h) : PathCount(p) <= h[i].IssueCount

\* a summary that leaves out a file with fewer issues than every file listed
C14_Witness ==
    /\ spc = "done"
    /\ topN = 2
    /\ Len(summary.HotspotFiles) = 2
    /\ Cardinality(IssuePaths) = 3
    /\ \E p \in IssuePaths :
         /\ \A i \in 1..2 : summary.HotspotFiles[i].FilePath # p
         /\ \A i \in 1..2 : PathCount(p) < summary.HotspotFiles[i].IssueCount

-----------------------------------------------------------------------------
(* Claims about the detectors' Detect, checked under SpecDetect *)

IsCCIssue(x) == x.Subcategory = "cyclomatic_complexity"

\* a fetched function that is not excluded and whose cyclomatic complexity is
\* strictly above the moderate threshold
AboveModerate(fn) ==
    /\ ~ShouldExclude(fn.FilePath, fn.ClassName, fn.Name)
    /\ fn.CyclomaticComplexity > CyclomaticModerate

\* issue x is about function fn
AboutFunction(x, fn) ==
    /\ x.FilePath = fn.FilePath
    /\ x.StartLine = fn.StartLine
    /\ x.EntityName = fn.Name
    /\ x.EntityType = "function"

\* C18: the complexity detector emits exactly one cyclomatic_complexity issue
\* for each non-excluded function whose cyclomatic complexity is strictly above
\* the moderate threshold and none for any other function; the issue's
\* severity is critical above the critical threshold, else high above the high
\* threshold, else medium (21 with thresholds 10/15/20 gives critical). The
\* issues emitted are those Detect collects; it returns the ones at or above
\* the minimum severity.
C18_OneCCIssueIffAboveModerate ==
    (detName = "complexity" /\ dtpc = "returned" /\ ~dtErr) =>
        LET emitted == SelectSeq(dtIssues, IsCCIssue)
            above == SelectSeq(fetched.rows, AboveModerate)
        IN  /\ Len(emitted) = Len(above)
            /\ \A k \in 1..Len(emitted) :
                 LET cc == above[k].CyclomaticComplexity
                 IN  /\ AboutFunction(emitted[k], above[k])
                     /\ emitted[k].Metrics.cyclomatic_complexity = cc
                     /\ emitted[k].Severity =
                            (IF cc > CyclomaticCritical THEN "critical"
                             ELSE IF cc > CyclomaticHigh THEN "high"
                             ELSE "medium")
                     /\ cc = 21 => emitted[k].Severity = "critical"
            /\ minSeverity \in SeverityLevels =>
                 SelectSeq(dtRet, IsCCIssue) = SelectSeq(emitted, KeptBy)

\* Detect returned exactly one issue, of severity critical, for one fetched
\* function of cyclomatic complexity 21
C18_Witness ==
    /\ detName = "complexity"
    /\ dtpc = "returned"
    /\ Len(fetched.rows) = 1
    /\ fetched.rows[1].CyclomaticComplexity = 21
    /\ fetched.rows[1].MaxNestingDepth = MaxNestingDepth
    /\ Len(dtRet) = 1
    /\ IsCCIssue(dtRet[1])
    /\ dtRet[1].Severity = "critical"

IsEnvyIssue(x) == x.Subcategory = "feature_envy"

\* a fetched function that is not excluded, has a class name, and uses more
\* external fields than own fields and than FeatureEnvyThreshold
Envious(fn) ==
    /\ ~ShouldExclude(fn.FilePath, fn.ClassName, fn.Name)
    /\ fn.ClassName # <<>>
    /\ fn.ExternalFieldUses > fn.OwnFieldUses
    /\ fn.ExternalFieldUses > FeatureEnvyThreshold

\* C20: a non-excluded function is reported as feature_envy if and only if
\* its ClassName is not empty, ExternalFieldUses > OwnFieldUses and
\* ExternalFieldUses > FeatureEnvyThreshold; the severity is high exactly when
\* ExternalFieldUses > 3 * max(OwnFieldUses, 1) and medium otherwise; a
\* function with OwnFieldUses = 0 is divided by 1, never by zero. The issues
\* reported are those detectFeatureEnvy hands to Detect, which returns the
\* ones at or above the minimum severity.
C20_FeatureEnvyIffExternalAboveOwnAndThreshold ==
    /\ (detName = "coupling" /\ dtpc = "high coupling") =>
          LET envious == SelectSeq(fetched.rows, Envious)
          IN  /\ Len(dtIssues) = Len(envious)
              /\ \A k \in 1..Len(dtIssues) :
                   LET ext == envious[k].ExternalFieldUses
                       own == envious[k].OwnFieldUses
                   IN  /\ IsEnvyIssue(dtIssues[k])
                       /\ AboutFunction(dtIssues[k], envious[k])
                       /\ dtIssues[k].Metrics.external_field_uses = ext
                       /\ dtIssues[k].Metrics.own_field_uses = own
                       /\ dtIssues[k].Severity =
                              (IF ext > 3 * (IF own > 1 THEN own ELSE 1)
                                 THEN "high" ELSE "medium")
                       /\ dtIssues[k].Metrics.ratio.den >= 1
                       /\ own = 0 => dtIssues[k].Metrics.ratio = [num |-> ext, den |-> 1]
    /\ (detName = "coupling" /\ dtpc = "returned" /\ ~dtErr
            /\ minSeverity \in SeverityLevels) =>
          SelectSeq(dtRet, IsEnvyIssue) = SelectSeq(SelectSeq(dtIssues, IsEnvyIssue), KeptBy)

\* detectFeatureEnvy reported, with severity high, a method that uses four
\* external fields and none of its own
C20_Witness ==
    /\ detName = "coupling"
    /\ dtpc = "high coupling"
    /\ Len(fetched.rows) = 1
    /\ fetched.rows[1].ClassName = NameA
    /\ fetched.rows[1].OwnFieldUses = 0
    /\ fetched.rows[1].ExternalFieldUses = 4
    /\ Len(dtIssues) = 1
    /\ dtIssues[1].Severity = "high"

\* C15: when the metrics fetch of any sub-check of the coupling detector
\* (feature envy, high coupling, intimacy, primitive obsession) or of the size
\* detector (functions, classes, files) fails, Detect ends there and returns
\* an error and no issues at all, whatever the earlier sub-checks had already
\* collected; a Detect that returns an error never returns issues.
C15_FailedSubCheckReturnsErrorAndNoIssues ==
    /\ fetched.err => (dtpc = "returned" /\ dtErr /\ dtRet = <<>>)
    /\ dtErr => (fetched.err /\ dtRet = <<>>)

\* the coupling detector collected a feature envy issue, then the fetch of a
\* later sub-check failed and Detect returned the error
C15_Witness ==
    /\ detName = "coupling"
    /\ dtpc = "returned"
    /\ fetched.err
    /\ dtErr
    /\ Len(dtIssues) > 0
    /\ IsEnvyIssue(dtIssues[1])
    /\ dtRet = <<>>

-----------------------------------------------------------------------------
(* Claims about every detector's Detect, checked under SpecDetectAll *)

\* C11: every issue a detector's Detect returns, and so every issue RunAll
\* merges, has a severity among low, medium, high and critical, and when the
\* configured minimum M is one of these four its severity is at least M,
\* whichever of the complexity, size, coupling and duplication detectors
\* produced it.
C11_ReturnedIssuesAtLeastMinSeverity ==
    /\ \A k \in 1..Len(dtRet) :
         /\ dtRet[k].Severity \in SeverityLevels
         /\ minSeverity \in SeverityLevels => AtLeast(dtRet[k].Severity, minSeverity)
    /\ \A k \in 1..Len(dRet) :
         /\ dRet[k].Severity \in SeverityLevels
         /\ minSeverity \in SeverityLevels => AtLeast(dRet[k].Severity, minSeverity)

\* with minimum severity high, a Detect that collected an issue below high
\* and an issue at or above it returned only the latter
C11_Witness ==
    /\ dtpc = "returned"
    /\ minSeverity = "high"
    /\ \E k \in 1..Len(dtIssues) : dtIssues[k].Severity = "medium"
    /\ Len(dtRet) > 0
    /\ Len(dtRet) < Len(dtIssues)

-----------------------------------------------------------------------------
(* Claims about codeapi.Client.post, checked under SpecClient *)

\* C24: every attempt of a call is made at the loop's doPost; after a
\* successful attempt post returns nil, after a failure that is not an API
\* error with a status of RetryOnStatus (another status, a transport or a
\* decoding error) it returns that error, both without a further attempt;
\* post goes on to another attempt only after an API error whose status is in
\* RetryOnStatus; and once post has returned nothing more is sent and the
\* outcome stays.
C24_RetryOnlyOnListedStatus ==
    [][/\ Len(attempts') > Len(attempts) =>
            LET err == attempts'[Len(attempts')]
            IN  /\ cpc = "attempt" /\ Len(attempts') = Len(attempts) + 1
                /\ err = NoError => (cpc' = "returned" /\ cret' = NoError)
                /\ (err # NoError
                      /\ ~(err.kind = "api" /\ err.status \in retryConf.RetryOnStatus)) =>
                         (cpc' = "returned" /\ cret' = err)
                /\ cpc' # "returned" =>
                         (err.kind = "api" /\ err.status \in retryConf.RetryOnStatus)
       /\ cpc = "returned" => UNCHANGED clientVars]_vars

\* C24 witness: the first attempt got a retry-eligible status, the second a
\* transport error, and post returned the transport error after two attempts
\* although a third was allowed.
C24_Witness ==
    /\ cpc = "returned"
    /\ retryConf.MaxAttempts = 2
    /\ attempts = <<APIError(503), TransportError>>
    /\ cret = TransportError

\* C36 as stated: one call of post sends at most retry.max_attempts requests,
\* the first attempt included, whatever the responses.
C36_AtMostMaxAttemptsRequests ==
    Len(attempts) <= retryConf.MaxAttempts

\* C37: when ctx.Done() fires during the backoff wait post returns the
\* context's error without another request, and nothing is sent after the
\* return; every call returns in the end; and a call that returned without
\* being cancelled after a failed last attempt returned that attempt's error.
C37_CancelReturnsContextErrElseLastErr ==
    /\ [][(cpc = "backoff" /\ cpc' = "returned") =>
              (cret' = ContextError /\ attempts' = attempts)]_vars
    /\ [][cpc = "returned" => attempts' = attempts]_vars
    /\ [](cpc = "idle" => <>(cpc = "returned"))
    /\ []((cpc = "returned" /\ cret # ContextError
             /\ attempts[Len(attempts)] # NoError) => cret = attempts[Len(attempts)])

\* C37 witness: the call was cancelled in the wait after its second
\* retry-eligible failure, with one more attempt allowed.
C37_Witness ==
    /\ cpc = "returned" /\ cret = ContextError
    /\ retryConf.MaxAttempts = 2
    /\ attempts = <<APIError(503), APIError(503)>>

\* the workers that wait at "sem <- struct{}{}"
AwaitingPermit == {d \in DetectorNames : wpc[d] = "start"}

\* C33: whatever MaxParallelDetectors (0 or more), the enabled detectors and
\* the fail-fast setting are, when the goroutines are scheduled and every
\* Detect call returns, every worker that waits for a permit gets one, a
\* worker that is about to send its error finds room in errChan, and RunAll
\* returns. TLC finds a behaviour that violates it.
C33_RunAllAlwaysReturns ==
    /\ \A d \in DetectorNames : (wpc[d] = "start") ~> (wpc[d] # "start")
    /\ [](\A d \in DetectorNames : wpc[d] = "failed" => Len(errChan) < Len(detectors))
    /\ <>(mainpc = "returned")

-----------------------------------------------------------------------------
(* Claims about findSimilarFunctions, checked under SpecSim *)

Places(seq) == {seq[i] : i \in 1..Len(seq)}

\* two line ranges share at least one line
ShareALine(a, b) ==
    a.Chunk.StartLine <= b.Chunk.EndLine /\ b.Chunk.StartLine <= a.Chunk.EndLine

\* every issue was created from a returned match
IssuesComeFromKept ==
    \A k \in 1..Len(simIssues) :
        \E i \in 1..Len(simKept) :
            /\ simIssues[k].Metrics.similarity_score = simKept[i].Score
            /\ simIssues[k].Metrics.duplicate_file = simKept[i].Chunk.FilePath
            /\ simIssues[k].Metrics.duplicate_line = simKept[i].Chunk.StartLine
            /\ simIssues[k].Metrics.duplicate_function = simKept[i].Chunk.Name

\* C26 as stated: every match findSimilarFunctions returns, and so every
\* match an issue is created from, has the chunk kind "function"; a match
\* with another or an empty kind is discarded.
C26_OnlyFunctionKindUsed ==
    /\ IssuesComeFromKept
    /\ \A i \in 1..Len(simKept) : simKept[i].Chunk.ChunkType = StrFunction

\* C26 amended: every returned match has the chunk kind "function", or has
\* an empty kind and a name that is no statement keyword; a match with any
\* other kind, or with an empty kind and a statement keyword as its name, is
\* never returned, whatever its score; and issues come from returned matches
\* only.
C26_FunctionKindOrUntypedNonKeyword ==
    /\ IssuesComeFromKept
    /\ \A i \in 1..Len(simKept) :
          \/ simKept[i].Chunk.ChunkType = StrFunction
          \/ /\ simKept[i].Chunk.ChunkType = <<>>
             /\ simKept[i].Chunk.Name \notin statementKeywords

\* C26 witness: the response listed an untyped chunk named "helper", a block
\* and an untyped chunk named "for", all with scores above the threshold; only
\* the first was returned and an issue was created from it.
C26_Witness ==
    /\ simpc = "reported"
    /\ {simResults[i].Chunk : i \in 1..Len(simResults)}
          = {ChunkUntypedHelper, ChunkFor, ChunkUntypedFor}
    /\ Len(simKept) = 1 /\ simKept[1].Chunk = ChunkUntypedHelper
    /\ Len(simIssues) = 1

\* C27: after deduplicateOverlappingMatches no two returned matches of one
\* file share a line, every file with a match before it still has one after
\* it, the returned matches are matches it was given, each once, and a match
\* it dropped overlaps another given match of its own file (so nothing is
\* dropped because of a match in another file).
C27_NoOverlapLeftEveryFileKept ==
    simpc # "start" =>
        /\ \A i, j \in 1..Len(simKept) :
              (i # j /\ simKept[i].Chunk.FilePath = simKept[j].Chunk.FilePath) =>
                  ~ShareALine(simKept[i], simKept[j])
        /\ \A i \in 1..Len(simMatches) :
              \E j \in 1..Len(simKept) :
                  simKept[j].Chunk.FilePath = simMatches[i].Chunk.FilePath
        /\ Places(simKept) \subseteq Places(simMatches)
        /\ Cardinality(Places(simKept)) = Len(simKept)
        /\ \A i \in 1..Len(simMatches) :
              simMatches[i] \notin Places(simKept) =>
                  \E j \in 1..Len(simMatches) :
                      /\ j # i
                      /\ simMatches[j].Chunk.FilePath = simMatches[i].Chunk.FilePath
                      /\ ShareALine(simMatches[i], simMatches[j])

\* C27 witness: three matches, two of b.go that touch in one line and one of
\* a.go; one of the two in b.go was dropped and the match of a.go returned.
C27_Witness ==
    /\ simpc = "searched"
    /\ Len(simMatches) = 3 /\ Len(simKept) = 2
    /\ {simMatches[i].Chunk : i \in 1..3} = {ChunkHandle, ChunkInner, ChunkFar}
    /\ \E i \in 1..2 : simKept[i].Chunk = ChunkFar

\* match m overlaps, in its own file, a match that was returned
OverlapsRetained(m) ==
    \E j \in 1..Len(simKept) :
        /\ simKept[j] # m
        /\ simKept[j].Chunk.FilePath = m.Chunk.FilePath
        /\ ShareALine(m, simKept[j])

\* C34: every match deduplicateOverlappingMatches discards overlaps, in the
\* same file, a match it returns; a match that overlaps no returned match is
\* returned. TLC finds a state that violates it.
C34_DiscardedOverlapsRetained ==
    simpc # "start" =>
        \A i \in 1..Len(simMatches) :
            simMatches[i] \notin Places(simKept) => OverlapsRetained(simMatches[i])

MatchSpan(m) == m.Chunk.EndLine - m.Chunk.StartLine

\* the match the stated rule discards when a (the earlier) and b are compared
RuleDiscards(a, b) ==
    IF a.Score - b.Score > 5 THEN b
    ELSE IF b.Score - a.Score > 5 THEN a
    ELSE IF MatchSpan(b) > MatchSpan(a) THEN a
    ELSE b

\* C28 as stated: in every comparison of two overlapping matches of one file
\* the match discarded is the one with the lower score when the scores differ
\* by more than 0.05, otherwise the one with the smaller span, the later one
\* when the spans are equal.
C28_ComparisonKeepsBetter ==
    \A e \in simLog :
        /\ ShareALine(e.a, e.b)
        /\ e.a.Chunk.FilePath = e.b.Chunk.FilePath
        /\ e.discarded = RuleDiscards(e.a, e.b)

\* C29: every duplication issue has severity high if the score of its match
\* is above 0.95 and medium otherwise (0.95 itself gives medium), so none
\* has severity low or critical.
C29_SeverityHighAbove95ElseMedium ==
    \A k \in 1..Len(simIssues) :
        /\ simIssues[k].Category = "duplication"
        /\ simIssues[k].Severity \in {"high", "medium"}
        /\ simIssues[k].Severity = "high" <=> simIssues[k].Metrics.similarity_score > 95

\* C29 witness: issues were created from a match with score 0.95 (medium), one
\* with 0.97 (high) and one with 0.90 (medium).
C29_Witness ==
    /\ simpc = "reported"
    /\ Len(simIssues) = 3
    /\ \E i, j, k \in 1..3 :
          /\ simIssues[i].Metrics.similarity_score = 95 /\ simIssues[i].Severity = "medium"
          /\ simIssues[j].Metrics.similarity_score = 97 /\ simIssues[j].Severity = "high"
          /\ simIssues[k].Metrics.similarity_score = 90 /\ simIssues[k].Severity = "medium"

-----------------------------------------------------------------------------
(* Claims about Detect's candidate selection, checked under SpecCandidates *)

\* the functions of the metrics that pass all three tests of the filter loop
Qualifying ==
    {k \in 1..Len(dupFunctions) :
        LET fn == dupFunctions[k]
        IN  /\ ~ShouldExclude(fn.FilePath, fn.ClassName, fn.Name)
            /\ fn.LineCount >= dupCfg.MinLines
            /\ dupCfg.SkipTrivial =>
                  /\ \A p \in 1..Len(trivialNames) : ~HasPrefix(fn.Name, trivialNames[p])
                  /\ ~(fn.LineCount <= 5 /\ fn.CyclomaticComplexity <= 1)}

\* the first MaxFunctionsToCheck of them, in the order of the metrics
FirstQualifying ==
    {k \in Qualifying :
        Cardinality({m \in Qualifying : m < k}) < dupCfg.MaxFunctionsToCheck}

\* goroutine i has called SearchSimilarCode
SearchCalled(i) ==
    gpc[i] = "search" \/ searched[i].outcome \in {"results", "search error"}

\* C30: from the launch loop on, the candidates are the first
\* MaxFunctionsToCheck qualifying functions in the order of the metrics
\* (not excluded, LineCount >= MinLines and, with SkipTrivial, neither a
\* trivial name prefix nor LineCount <= 5 with complexity <= 1); a similarity
\* search is made only by the goroutine of a candidate, so at most
\* MaxFunctionsToCheck searches are made.
C30_OnlyFirstQualifyingSearched ==
    /\ dpc \notin {"start"} /\ ~dErr =>
          /\ Len(dupCandidates) = Cardinality(FirstQualifying)
          /\ \A k \in FirstQualifying :
                dupCandidates[Cardinality({m \in FirstQualifying : m <= k})]
                    = dupFunctions[k]
    /\ \A i \in Slots : SearchCalled(i) => i <= Len(dupCandidates)
    /\ Cardinality({i \in Slots : SearchCalled(i)}) <= dupCfg.MaxFunctionsToCheck

\* C30 witness: with SkipTrivial and a limit of 1 the metrics listed a
\* function that is trivial by size and two that qualify; Detect returned
\* after one search, for the first qualifying function.
C30_Witness ==
    /\ dpc = "returned" /\ ~dErr
    /\ dupCfg.SkipTrivial /\ dupCfg.MaxFunctionsToCheck = 1
    /\ dupFunctions = <<FnSmall, FnProcess("opaque"), FnBranchy>>
    /\ dupCandidates = <<FnProcess("opaque")>>
    /\ searched[1].outcome = "results"
    /\ searched[2].outcome = "none"

-----------------------------------------------------------------------------
(* Claims about Analyze after RunAll, checked under SpecAnalyze *)

\* the issues with their code snippets removed
Bare(list) == [i \in 1..Len(list) |-> [list[i] EXCEPT !.CodeSnippet = <<>>]]

\* the issues of category c, in order
OfCategory(list, c) ==
    LET InCategory(x) == x.Category = c
    IN  SelectSeq(list, InCategory)

\* the first n elements of s, all of s if it has fewer
FirstN(s, n) == SubSeq(s, 1, Min(n, Len(s)))

\* C38: with MaxIssuesPerCategory = m > 0 the issues kept have, for every
\* category, at most m issues of it: the first m of that category in the
\* order RunAll returned them, all of them if the category has at most m;
\* with m <= 0 the collection is the one RunAll returned. (Only the code
\* snippets attached later are left out of the comparison.)
C38_FirstMPerCategoryKept ==
    anpc # "filters" =>
        LET m == outCfg.MaxIssuesPerCategory
        IN  /\ m <= 0 => Bare(anIssues) = runAllIssues
            /\ m > 0 =>
                 \A c \in AnalyzeCategories :
                   LET kept == OfCategory(Bare(anIssues), c)
                       all == OfCategory(runAllIssues, c)
                   IN  /\ Len(kept) <= m
                       /\ kept = FirstN(all, m)
                       /\ Len(all) <= m => kept = all

\* C38 witness: with m = 1 RunAll returned two complexity issues around a
\* duplication issue; the report holds the duplication issue first and then
\* the first complexity issue.
C38_Witness ==
    /\ anpc = "done"
    /\ outCfg.MaxIssuesPerCategory = 1
    /\ runAllIssues = <<IssueLong, IssueDup, IssueNoStart>>
    /\ Bare(anReport.Issues) = <<IssueDup, IssueLong>>

\* the sum of the IssueCount fields of a hotspot list
HotspotTotal(h) ==
    SumOver([i \in 1..Len(h) |-> h[i].IssueCount], 1..Len(h))

\* C39: in the report returned, TotalIssues is the number of issues of the
\* report, the by-severity counts and the by-category counts each sum to it,
\* the hotspot counts sum to at most it, and every count is the count over the
\* report's own issues, those left after the per-category cap.
C39_SummaryMatchesReportIssues ==
    anpc = "done" =>
        LET s == anReport.Summary
            list == anReport.Issues
        IN  /\ s.TotalIssues = Len(list)
            /\ SumOver(s.BySeverity, DOMAIN s.BySeverity) = s.TotalIssues
            /\ SumOver(s.ByCategory, DOMAIN s.ByCategory) = s.TotalIssues
            /\ HotspotTotal(s.HotspotFiles) <= s.TotalIssues
            /\ \A c \in DOMAIN s.ByCategory : s.ByCategory[c] = Len(OfCategory(list, c))
            /\ \A c \in AnalyzeCategories :
                 c \notin DOMAIN s.ByCategory => Len(OfCategory(list, c)) = 0
            /\ outCfg.MaxIssuesPerCategory > 0 =>
                 \A c \in DOMAIN s.ByCategory : s.ByCategory[c] <= outCfg.MaxIssuesPerCategory

\* C39 witness: the cap of 1 removed one of three issues, the two left are in
\* different files and one hotspot is listed, so the hotspot counts sum to
\* less than TotalIssues.
C39_Witness ==
    /\ anpc = "done"
    /\ outCfg.MaxIssuesPerCategory = 1
    /\ outCfg.HotspotsTopN = 1
    /\ Len(runAllIssues) = 3
    /\ anReport.Summary.TotalIssues = 2
    /\ HotspotTotal(anReport.Summary.HotspotFiles) = 1

\* a file-level issue or one whose start or end line is not positive
NoLineRange(x) == x.EntityType = "file" \/ x.StartLine < 1 \/ x.EndLine < 1

\* C32: every step of the snippet loop keeps the number and order of the
\* issues and every field of every issue except CodeSnippet; it changes at
\* most the issue at the loop index, and not even that one when it is
\* file-level or has a non-positive start or end line or when its fetch
\* failed; after a failed fetch the loop goes on with the next issue, and when
\* the loop is over every issue has been visited.
C32_SnippetsChangeOnlyCodeSnippet ==
    /\ [][anpc = "snippets" =>
            /\ Len(anIssues') = Len(anIssues)
            /\ \A j \in 1..Len(anIssues) :
                 /\ [anIssues'[j] EXCEPT !.CodeSnippet = anIssues[j].CodeSnippet] = anIssues[j]
                 /\ (j # anIdx \/ NoLineRange(anIssues[j]) \/ snFailed' # snFailed)
                       => anIssues'[j] = anIssues[j]
            /\ snFailed' # snFailed => (anIdx' = anIdx + 1 /\ anpc' = "snippets")
            /\ anpc' \in {"snippets", "report"}]_vars
    /\ []((anpc \in {"report", "done"} /\ outCfg.IncludeCodeSnippets) =>
            snFetched + snSkipped + snFailed = Len(anIssues))
    /\ [](anpc = "done" =>
            /\ Bare(anReport.Issues) \in applyGlobalFilters(runAllIssues, outCfg.MaxIssuesPerCategory)
            /\ \A j \in 1..Len(anReport.Issues) :
                 NoLineRange(anReport.Issues[j]) => anReport.Issues[j].CodeSnippet = <<>>)

\* C32 witness: of three issues the first has no end line, the fetch for the
\* second failed and the fetch for the third succeeded; the report holds the
\* first two as they were and the third with its snippet.
C32_Witness ==
    /\ anpc = "done"
    /\ snSkipped = 1
    /\ snFailed = 1
    /\ snFetched = 1
    /\ runAllIssues = <<IssueNoEnd, IssueLong, IssueDup>>
    /\ anReport.Issues = <<IssueNoEnd, IssueLong, [IssueDup EXCEPT !.CodeSnippet = SnippetCode]>>

-----------------------------------------------------------------------------
(* Claims about the exclusions in every detector, checked under SpecDetectAll *)

\* the Exclusion Matcher matches the entity with this file path, class name
\* and function name (an empty name is not tested)
IsExcluded(file, class, func) ==
    \/ file \in exclusions.files
    \/ class # <<>> /\ class \in exclusions.classes
    \/ func # <<>> /\ func \in exclusions.functions

\* issue x is about the entity of one of the rows, and the matcher does not
\* match that entity (for a pair: neither of its two classes)
AboutUnexcludedRow(x, rows) ==
    CASE x.EntityType = "function" ->
           \E r \in 1..Len(rows) :
               /\ x.FilePath = rows[r].FilePath
               /\ x.EntityName = rows[r].Name
               /\ x.StartLine = rows[r].StartLine
               /\ ~IsExcluded(rows[r].FilePath, rows[r].ClassName, rows[r].Name)
      [] x.EntityType = "class" ->
           \E r \in 1..Len(rows) :
               /\ x.FilePath = rows[r].FilePath
               /\ x.EntityName = rows[r].Name
               /\ ~IsExcluded(rows[r].FilePath, rows[r].Name, <<>>)
      [] x.EntityType = "file" ->
           \E r \in 1..Len(rows) :
               /\ x.FilePath = rows[r].Path
               /\ ~IsExcluded(rows[r].Path, <<>>, <<>>)
      [] x.EntityType = "class_pair" ->
           \E r \in 1..Len(rows) :
               /\ x.FilePath = rows[r].Class1File
               /\ x.EntityName = <<rows[r].Class1Name, " <-> ", rows[r].Class2Name>>
               /\ ~IsExcluded(rows[r].Class1File, rows[r].Class1Name, <<>>)
               /\ ~IsExcluded(rows[r].Class2File, rows[r].Class2Name, <<>>)
      [] OTHER -> FALSE

\* C31: every issue a sub-check of the complexity, size and coupling detectors
\* adds is about a function, class, file or class pair it fetched that the
\* Exclusion Matcher does not match (for a pair: neither class); and every
\* duplication issue has as its source a function the matcher does not match.
C31_NoIssueForExcludedEntity ==
    /\ [][\A k \in (Len(dtIssues) + 1)..Len(dtIssues') :
              AboutUnexcludedRow(dtIssues'[k], fetched'.rows)]_vars
    /\ [](\A k \in 1..Len(dtRet) : \E j \in 1..Len(dtIssues) : dtRet[k] = dtIssues[j])
    /\ [](\A k \in 1..Len(dupIssues) : AboutUnexcludedRow(dupIssues[k], dupFunctions))

\* C31 witness: the coupling detector fetched a pair whose calls exceed the
\* threshold in both directions and whose second class the matcher matches;
\* the intimacy sub-check is over and no issue is about a pair.
C31_Witness ==
    /\ detName = "coupling"
    /\ dtpc = "primitive obsession"
    /\ Len(fetched.rows) = 1
    /\ fetched.rows[1].Calls1To2 > IntimacyCallThreshold
    /\ fetched.rows[1].Calls2To1 > IntimacyCallThreshold
    /\ fetched.rows[1].Class2Name \in exclusions.classes
    /\ fetched.rows[1].Class1Name \notin exclusions.classes
    /\ \A k \in 1..Len(dtIssues) : dtIssues[k].EntityType # "class_pair"

=============================================================================
